---- MODULE Spec2Model ----
(***************************************************************************)
(* Model of the story backend's generation pipeline:                       *)
(*   - OpenRouterClient (config/openai.ts): ordered completion over the    *)
(*     three AI_MODELS tiers, run by concurrent callers on the singleton;  *)
(*   - ContentSafetyService: deterministic pass, model-based pass and      *)
(*     their combination;                                                  *)
(*   - StoryGenerationService.generateStoryContent and                     *)
(*     StoryController.validateContent as request flows.                   *)
(*                                                                         *)
(* A text is modelled by the features the scanners of the code read from   *)
(* it: the number of whitespace-separated words, how often each block-list *)
(* word occurs, the number of well-formed "Choice Point N:" sections, and  *)
(* the "Safety Score:" / "Concerns:" markers of the safety rubric.         *)
(***************************************************************************)
EXTENDS Integers, Sequences, FiniteSets, TLC

----------------------------------------------------------------------------
(* Bounds of the model *)

NumCallers == 2

Slack == 1

MaxBlocked == 2

MaxChoicePoints == 1

MaxTokens == 2

(* visitors of stories *)
NumVisitors == 2

Visitors == 1 .. NumVisitors

----------------------------------------------------------------------------
(* Program constants *)

MinAge == 3

MaxAge == 12

MinWordsPerYear == 20

MaxWordsPerYear == 80

MinStoryWords == 100

MaxStoryWords == 800

DangerousPenalty == 20

ValidationPenalty == 15

DefaultAIScore == 50

UnavailableAIScore == 70

AISafeThreshold == 80

SafeThreshold == 80

ImprovementThreshold == 85

MinCount == 1

MaxCount == 5

DefaultCount == 3

ShortPreviewCount == 4

SelectedPreviews == 3

MinParsedDescription == 50

MinTitleLength == 5

MinDescriptionLength == 20

DescriptionSafeScore == 70

BadWordPenalty == 20

MinDescriptionWords == 15

ShortPenalty == 30

MaxDescriptionWords == 150

LongPenalty == 10

Callers == 1 .. NumCallers

Ages == MinAge .. MaxAge

AI_MODELS == {"PRIMARY", "SECONDARY", "TERTIARY"}

dangerousWords ==
  { "kill", "die", "dead", "death", "murder", "fight", "battle", "war",
    "weapon", "gun", "knife", "blood", "hurt", "pain", "injury",
    "monster", "ghost", "zombie", "vampire", "witch", "curse", "haunted",
    "scary", "terrifying", "nightmare", "fear", "afraid", "terror",
    "hate", "evil", "bad", "mean", "cruel", "angry", "rage",
    "alcohol", "drugs", "smoking", "sex", "naked", "bathroom" }

inappropriateWords ==
  { "violence", "death", "scary", "monster", "ghost", "witch",
    "curse", "poison", "weapon", "fight", "battle", "war" }

(* The block-list words the modelled texts are built from: one that only   *)
(* the dangerous list has, one that both lists have, one that only the     *)
(* age-validation list has.                                                *)
BlockedVocab == {"kill", "war", "poison"}

----------------------------------------------------------------------------
(* Texts *)

Max(a, b) == IF a >= b THEN a ELSE b

Min(a, b) == IF a <= b THEN a ELSE b

NoWords == [w \in BlockedVocab |-> 0]

BagSize(bag) == bag["kill"] + bag["war"] + bag["poison"]

Bags == { b \in [BlockedVocab -> 0 .. MaxBlocked] : BagSize(b) <= MaxBlocked }

(* score = -1: the text has no "Safety Score: <digits>" marker *)
MkText(words, bag, cps, score, concerns) ==
  [words |-> words, bag |-> bag, cps |-> cps, score |-> score, concerns |-> concerns]

EmptyText == MkText(0, NoWords, 0, -1, 0)

(* lowerContent.includes(word) *)
Includes(text, word) == word \in BlockedVocab /\ text.bag[word] > 0

(* content.split(/\s+/).length : "" splits into [""] *)
WordCount(text) == Max(1, text.words)

(* the text with one more occurrence of the block-list word w *)
AddBlockedWord(text, w) ==
  [text EXCEPT !.words = @ + 1, !.bag = [@ EXCEPT ![w] = @ + 1]]

----------------------------------------------------------------------------
VARIABLES
  currentModel,   \* OpenRouterClient.currentModel of the singleton
  calls,          \* per caller: its generateCompletion call (see NoCall)
  fpc,            \* request flow: "idle", "gen_wait", "ai_wait", "improve_wait",
                  \* "opt_wait", "prev_wait", "done"
  fop,            \* request flow: "none", "generate", "validate", "options"
  freq,           \* request flow: [storyId, age] of the request
  fstory,         \* storyContent: [content, choicePoints]
  forig,          \* storyContent as parsed from the generation response
  fbasic,         \* result of performBasicSafetyChecks
  fai,            \* result of performAISafetyCheck
  fsafety,        \* result of checkContentSafety
  ftrace,         \* what the flow went through (see NoTrace)
  fresult,        \* "none", "ok", "rejected", "invalid", "error"
  opts,           \* the request and the story options so far (see NoOptions)
  stories,        \* rows of table stories
  story_segments, \* rows of table story_segments
  choice_points,  \* rows of table choice_points
  choice_options, \* rows of table choice_options
  delivery,       \* text being prepared for a profile (see NoDelivery)
  lastOp,         \* the last call of DatabaseService (see NoOp)
  visits          \* the getNextSegment requests (see NoVisit)

orchVars == <<currentModel, calls>>

storeVars == <<stories, story_segments, choice_points, choice_options>>

flowVars == <<fpc, fop, freq, fstory, forig, fbasic, fai, fsafety, ftrace, fresult, opts,
              storeVars>>

sideVars == <<delivery, lastOp, visits>>

vars == <<currentModel, calls,
          fpc, fop, freq, fstory, forig, fbasic, fai, fsafety, ftrace, fresult, opts,
          stories, story_segments, choice_points, choice_options,
          delivery, lastOp, visits>>

----------------------------------------------------------------------------
(* OpenRouterClient *)

NoResult == [text |-> EmptyText, error |-> "none"]

(* A generateCompletion call: pc is "idle", "awaiting" (the remote call of *)
(* tryModel(model) is pending), "returned" or "thrown"; fb is              *)
(* options.fallbackToPaid; log lists the attempts made, [model, reply];    *)
(* solo tells that no other call was in flight since this one began.       *)
NoCall ==
  [pc |-> "idle", fb |-> TRUE, model |-> "PRIMARY", log |-> <<>>,
   result |-> NoResult, solo |-> FALSE]

(* What a remote chat completion can do: deliver content, deliver content  *)
(* that is only whitespace, deliver no content, or fail.                   *)
MkReply(kind, text) == [kind |-> kind, text |-> text]

BlankReply == MkReply("blank", EmptyText)

FailingReplies == {MkReply("empty", EmptyText), MkReply("error", EmptyText)}

(* tryModel: the remote call throws, or `content` is falsy *)
TierFails(reply) == reply.kind \in {"empty", "error"}

(* tryModel: the error it throws *)
TierError(reply) == IF reply.kind = "error" THEN "RemoteError" ELSE "NoContent"

(* tryModel: content.trim() *)
Trim(reply) == IF reply.kind = "content" THEN reply.text ELSE EmptyText

(* a tryModel that leaves the recorded model alone *)
RecordModelStale(cur, model) == cur

(* tryModel, first statement: this.currentModel = model *)
RecordModel(cur, model) == model

(* a fallback chain that skips the secondary tier *)
OnTierFailureSkip(model, fallbackToPaid, err) ==
  CASE model = "PRIMARY" /\ ~fallbackToPaid -> [next |-> "none", error |-> err]
    [] model = "PRIMARY" /\ fallbackToPaid -> [next |-> "TERTIARY", error |-> "none"]
    [] model = "SECONDARY" -> [next |-> "TERTIARY", error |-> "none"]
    [] OTHER -> [next |-> "none", error |-> "AllUnavailable"]

(* a fallback chain that ignores fallbackToPaid *)
OnTierFailureAlways(model, fallbackToPaid, err) ==
  CASE model = "PRIMARY" -> [next |-> "SECONDARY", error |-> "none"]
    [] model = "SECONDARY" -> [next |-> "TERTIARY", error |-> "none"]
    [] OTHER -> [next |-> "none", error |-> "AllUnavailable"]

(* a fallback chain that rethrows the last tier's own error *)
OnTierFailureRethrow(model, fallbackToPaid, err) ==
  CASE model = "PRIMARY" /\ ~fallbackToPaid -> [next |-> "none", error |-> err]
    [] model = "PRIMARY" /\ fallbackToPaid -> [next |-> "SECONDARY", error |-> "none"]
    [] model = "SECONDARY" -> [next |-> "TERTIARY", error |-> "none"]
    [] OTHER -> [next |-> "none", error |-> err]

(* generateCompletion, the nesting of the catch blocks: what follows the   *)
(* failure of `model`. next = "none": the call throws `error`.             *)
OnTierFailure(model, fallbackToPaid, err) ==
  CASE model = "PRIMARY" /\ ~fallbackToPaid -> [next |-> "none", error |-> err]
    [] model = "PRIMARY" /\ fallbackToPaid -> [next |-> "SECONDARY", error |-> "none"]
    [] model = "SECONDARY" -> [next |-> "TERTIARY", error |-> "none"]
    [] OTHER -> [next |-> "none", error |-> "AllUnavailable"]

InFlight(c) == calls[c].pc = "awaiting"

(* generateCompletion up to the await inside tryModel(AI_MODELS.PRIMARY) *)
BeginCall(c, fallbackToPaid) ==
  [pc |-> "awaiting", fb |-> fallbackToPaid, model |-> "PRIMARY", log |-> <<>>,
   result |-> NoResult, solo |-> \A d \in Callers \ {c} : ~InFlight(d)]

(* the rest of tryModel once its remote call settles with `reply`, and the *)
(* catch block of generateCompletion around it                             *)
AfterReply(call, reply) ==
  LET logged == Append(call.log, [model |-> call.model, reply |-> reply])
      after == OnTierFailure(call.model, call.fb, TierError(reply))
  IN  IF ~TierFails(reply)
      THEN [call EXCEPT !.pc = "returned", !.log = logged,
                        !.result = [text |-> Trim(reply), error |-> "none"]]
      ELSE IF after.next = "none"
      THEN [call EXCEPT !.pc = "thrown", !.log = logged,
                        !.result = [text |-> EmptyText, error |-> after.error]]
      ELSE [call EXCEPT !.model = after.next, !.log = logged]

(* generateCompletion(prompt, {fallbackToPaid}) by caller c, entered from  *)
(* the continuation of c's previous call or from a caller at rest          *)
NextCompletion(c, fallbackToPaid) ==
  /\ currentModel' = RecordModel(currentModel, "PRIMARY")
  /\ calls' = [d \in Callers |->
                 IF d = c THEN BeginCall(c, fallbackToPaid)
                 ELSE [calls[d] EXCEPT !.solo = FALSE]]

GenerateCompletion(c, fallbackToPaid) ==
  ~InFlight(c) /\ NextCompletion(c, fallbackToPaid)

(* the pending remote call of caller c settles with `reply` *)
RemoteSettles(c, reply) ==
  /\ InFlight(c)
  /\ LET call == AfterReply(calls[c], reply) IN
       /\ calls' = [calls EXCEPT ![c] = call]
       /\ currentModel' = IF call.pc = "awaiting"
                          THEN RecordModel(currentModel, call.model)
                          ELSE currentModel

(* getCurrentModel *)
getCurrentModel == currentModel

----------------------------------------------------------------------------
(* validateContentForAge (utils/validation.ts) *)

(* list.filter(word => lowerContent.includes(word)): only the words of     *)
(* BlockedVocab occur in a modelled text                                   *)
SelectWords(list, text) == { w \in BlockedVocab : w \in list /\ Includes(text, w) }

validateContentForAge(content, age) ==
  LET foundWords == SelectWords(inappropriateWords, content)
      wordCount == WordCount(content)
      minWords == age * MinWordsPerYear
      maxWords == age * MaxWordsPerYear
      errors ==
        (IF foundWords # {} THEN <<"inappropriate words">> ELSE <<>>)
        \o (IF wordCount < minWords THEN <<"too short for age">> ELSE <<>>)
        \o (IF wordCount > maxWords THEN <<"too long for age">> ELSE <<>>)
  IN  [isValid |-> errors = <<>>, errors |-> errors]

----------------------------------------------------------------------------
(* ContentSafetyService *)

Clamp(score) == Max(0, Min(100, score))

performBasicSafetyChecks(content, age) ==
  LET foundDangerousWords == SelectWords(dangerousWords, content)
      ageValidation == validateContentForAge(content, age)
      wordCount == WordCount(content)
      issues ==
        (IF foundDangerousWords # {} THEN <<"dangerous words">> ELSE <<>>)
        \o ageValidation.errors
        \o (IF wordCount < MinStoryWords THEN <<"story too short">> ELSE <<>>)
        \o (IF wordCount > MaxStoryWords THEN <<"story too long">> ELSE <<>>)
      score == Clamp(100 - Cardinality(foundDangerousWords) * DangerousPenalty
                         - Len(ageValidation.errors) * ValidationPenalty)
  IN  [isSafe |-> issues = <<>>, issues |-> issues, score |-> score,
       recommendations |-> IF issues # <<>> THEN <<"Review and revise content">> ELSE <<>>]

(* the concern lines of the "Concerns:" section, "None" giving no line *)
ConcernLines(response) == [i \in 1 .. response.concerns |-> "concern"]

parseAISafetyResponse(response) ==
  LET score == IF response.score >= 0 THEN Clamp(response.score) ELSE DefaultAIScore
      issues == ConcernLines(response)
  IN  [isSafe |-> score >= AISafeThreshold /\ issues = <<>>, issues |-> issues,
       score |-> score, recommendations |-> <<>>]

(* performAISafetyCheck, the catch block *)
AISafetyUnavailable ==
  [isSafe |-> TRUE, issues |-> <<>>, score |-> UnavailableAIScore,
   recommendations |-> <<"AI safety validation unavailable">>]

(* performAISafetyCheck after its generateCompletion call has finished *)
performAISafetyCheck(call) ==
  IF call.pc = "returned" THEN parseAISafetyResponse(call.result.text)
  ELSE AISafetyUnavailable

(* a weighted score that is truncated instead of rounded *)
RoundedWeightedScoreTruncated(basicScore, aiScore) == (4 * basicScore + 6 * aiScore) \div 10

(* Math.round(basic * 0.4 + ai * 0.6): the weighted sum is a multiple of   *)
(* 0.2, never a tie, so rounding is exact on tenths                        *)
RoundedWeightedScore(basicScore, aiScore) == (4 * basicScore + 6 * aiScore + 5) \div 10

(* a combination that takes its verdict from the basic checks alone *)
combineSafetyResultsBasicVerdict(basicResult, aiResult) ==
  [isSafe |-> basicResult.isSafe,
   issues |-> basicResult.issues \o aiResult.issues,
   score |-> RoundedWeightedScore(basicResult.score, aiResult.score),
   recommendations |-> basicResult.recommendations \o aiResult.recommendations]

combineSafetyResults(basicResult, aiResult) ==
  LET combinedScore == RoundedWeightedScore(basicResult.score, aiResult.score) IN
  [isSafe |-> basicResult.isSafe /\ aiResult.isSafe /\ combinedScore >= SafeThreshold,
   issues |-> basicResult.issues \o aiResult.issues,
   score |-> combinedScore,
   recommendations |-> basicResult.recommendations \o aiResult.recommendations]

needsImprovement(result) == result.score < ImprovementThreshold \/ Len(result.issues) > 0

----------------------------------------------------------------------------
(* DatabaseService and the schema of createTables                          *)
(*                                                                         *)
(* A table is the set of its rows. Rows keep the columns that are keys:    *)
(* the primary key id and the foreign keys; a stories row also keeps its   *)
(* three texts.                                                            *)

Null == "null"

Ids(table) == { r.id : r \in table }

(* the four tables as one value *)
MkDb(s, g, c, o) ==
  [stories |-> s, story_segments |-> g, choice_points |-> c, choice_options |-> o]

Db == MkDb(stories, story_segments, choice_points, choice_options)

ConcatAll(seqs) ==
  LET F[i \in 0 .. Len(seqs)] == IF i = 0 THEN <<>> ELSE F[i - 1] \o seqs[i]
  IN  F[Len(seqs)]

(* stories.energy_level: CHECK (energy_level IN ('high', 'medium', 'calming')) *)
StoryEnergyLevels == {"high", "medium", "calming"}

(* INSERT INTO stories: id TEXT PRIMARY KEY, the CHECK of energy_level;    *)
(* the stored row keeps the columns that other statements read             *)
InsertStory(db, row) ==
  IF row.id \in Ids(db.stories) \/ row.energy_level \notin StoryEnergyLevels
  THEN [ok |-> FALSE, db |-> db]
  ELSE [ok |-> TRUE,
        db |-> [db EXCEPT !.stories =
                  @ \cup {[c \in DOMAIN row \ {"energy_level"} |-> row[c]]}]]

(* INSERT INTO story_segments: id TEXT PRIMARY KEY, story_id REFERENCES    *)
(* stories(id), parent_segment_id REFERENCES story_segments(id); no        *)
(* constraint on (parent_segment_id, choice_id)                            *)
InsertSegment(db, row) ==
  IF \/ row.id \in Ids(db.story_segments)
     \/ row.story_id \notin Ids(db.stories)
     \/ (row.parent_segment_id # Null
           /\ row.parent_segment_id \notin Ids(db.story_segments) \cup {row.id})
  THEN [ok |-> FALSE, db |-> db]
  ELSE [ok |-> TRUE, db |-> [db EXCEPT !.story_segments = @ \cup {row}]]

(* INSERT INTO choice_points: id TEXT PRIMARY KEY, segment_id REFERENCES   *)
(* story_segments(id)                                                      *)
InsertChoicePoint(db, row) ==
  IF row.id \in Ids(db.choice_points) \/ row.segment_id \notin Ids(db.story_segments)
  THEN [ok |-> FALSE, db |-> db]
  ELSE [ok |-> TRUE, db |-> [db EXCEPT !.choice_points = @ \cup {row}]]

(* INSERT INTO choice_options: id TEXT PRIMARY KEY, choice_point_id        *)
(* REFERENCES choice_points(id)                                            *)
InsertChoiceOption(db, row) ==
  IF row.id \in Ids(db.choice_options) \/ row.choice_point_id \notin Ids(db.choice_points)
  THEN [ok |-> FALSE, db |-> db]
  ELSE [ok |-> TRUE, db |-> [db EXCEPT !.choice_options = @ \cup {row}]]

(* the statements in the order the function of the transaction runs them,  *)
(* up to the first one that throws; ran counts the statements that ran     *)
(* without throwing; Run: stmt.run(...) of a prepared INSERT               *)
RunAll(db, stmts) ==
  LET Run(d, stmt) ==
        CASE stmt.table = "stories" -> InsertStory(d, stmt.row)
          [] stmt.table = "story_segments" -> InsertSegment(d, stmt.row)
          [] stmt.table = "choice_points" -> InsertChoicePoint(d, stmt.row)
          [] stmt.table = "choice_options" -> InsertChoiceOption(d, stmt.row)
      F[i \in 0 .. Len(stmts)] ==
        IF i = 0 THEN [ok |-> TRUE, db |-> db, ran |-> 0]
        ELSE LET before == F[i - 1]
                 r == Run(before.db, stmts[i])
             IN  IF ~before.ok THEN before
                 ELSE [ok |-> r.ok, db |-> r.db,
                       ran |-> IF r.ok THEN before.ran + 1 ELSE before.ran]
  IN  F[Len(stmts)]

(* a transaction that commits what ran before the throw *)
TransactionWithoutRollback(db, stmts) == RunAll(db, stmts)

(* db.transaction(fn)(): commits when fn returns, rolls back when it throws *)
Transaction(db, stmts) ==
  LET r == RunAll(db, stmts)
  IN  [ok |-> r.ok, db |-> IF r.ok THEN r.db ELSE db, ran |-> r.ran]

(* the inserts of one segment: the segment, then per choice point the      *)
(* choice point and (saveStory only) its options, with                     *)
(* optionId = `${choice.id}_option_${option.id}`                           *)
SegmentStatements(segment, withOptions) ==
  LET OptionStatements(choice) ==
        [k \in 1 .. Len(choice.choices) |->
           [table |-> "choice_options",
            row |-> [id |-> <<choice.id, choice.choices[k]>>,
                     choice_point_id |-> choice.id,
                     option_id |-> choice.choices[k],
                     option_order |-> k]]]
      ChoiceStatements(choice, choiceIndex) ==
        << [table |-> "choice_points",
            row |-> [id |-> choice.id, segment_id |-> segment.id,
                     choice_order |-> choiceIndex]] >>
        \o (IF withOptions THEN OptionStatements(choice) ELSE <<>>)
  IN  << [table |-> "story_segments",
          row |-> [id |-> segment.id, story_id |-> segment.storyId,
                   parent_segment_id |-> segment.parentSegmentId,
                   choice_id |-> segment.choiceId]] >>
      \o ConcatAll([j \in 1 .. Len(segment.choicePoints) |->
                      ChoiceStatements(segment.choicePoints[j], j)])

(* DatabaseService.saveStory: [ok, db]; it throws when ok is FALSE *)
saveStory(db, storyOption, segments) ==
  Transaction(db,
    << [table |-> "stories",
        row |-> [id |-> storyOption.id, title |-> storyOption.title,
                 description |-> storyOption.description,
                 energy_level |-> storyOption.energyLevel,
                 preview |-> storyOption.preview]] >>
    \o ConcatAll([i \in 1 .. Len(segments) |-> SegmentStatements(segments[i], TRUE)]))

(* DatabaseService.saveStorySegments: segments and choice points only *)
saveStorySegments(db, segments) ==
  Transaction(db,
    ConcatAll([i \in 1 .. Len(segments) |-> SegmentStatements(segments[i], FALSE)]))

(* DatabaseService.getStorySegments: the segments of the story, each with  *)
(* its choice points by choice_order and their options by option_order.    *)
(* The rows keep no segment_order: the result is the set of the segments,  *)
(* in the shape saveStory and saveStorySegments take them; a segment       *)
(* without choice points has choicePoints undefined, here <<>>.            *)
getStorySegments(db, storyId) ==
  LET OptionsOf(choice) ==
        LET rows == { o \in db.choice_options : o.choice_point_id = choice.id }
            options == CHOOSE s \in [1 .. Cardinality(rows) -> rows] :
                         \A a, b \in DOMAIN s :
                           a < b => (s[a].option_order <= s[b].option_order
                                       /\ s[a] # s[b])
        IN  [k \in DOMAIN options |-> options[k].option_id]
      ChoicePointsOf(segment) ==
        LET rows == { c \in db.choice_points : c.segment_id = segment.id }
            choices == CHOOSE s \in [1 .. Cardinality(rows) -> rows] :
                         \A a, b \in DOMAIN s :
                           a < b => (s[a].choice_order <= s[b].choice_order
                                       /\ s[a] # s[b])
        IN  [k \in DOMAIN choices |->
               [id |-> choices[k].id, choices |-> OptionsOf(choices[k])]]
  IN  { [id |-> segment.id, storyId |-> segment.story_id,
         parentSegmentId |-> segment.parent_segment_id,
         choiceId |-> segment.choice_id,
         choicePoints |-> ChoicePointsOf(segment)] :
        segment \in { g \in db.story_segments : g.story_id = storyId } }

(* a delete that does not cascade (foreign_keys off) *)
CascadeNone(db, storyId) == {}

(* ON DELETE CASCADE of story_segments: the segments of the story and, at  *)
(* any depth, the segments whose parent is deleted                         *)
Cascade(db, storyId) ==
  LET F[n \in 0 .. Cardinality(db.story_segments)] ==
        IF n = 0 THEN { g \in db.story_segments : g.story_id = storyId }
        ELSE F[n - 1] \cup { g \in db.story_segments :
                               g.parent_segment_id \in Ids(F[n - 1]) }
  IN  F[Cardinality(db.story_segments)]

(* a deleteStory with foreign_keys = OFF: the stories row alone goes *)
deleteStoryRowOnly(db, storyId) ==
  [db EXCEPT !.stories = { r \in @ : r.id # storyId }]

(* DatabaseService.deleteStory: DELETE FROM stories WHERE id = ? with      *)
(* foreign_keys = ON                                                       *)
deleteStory(db, storyId) ==
  IF storyId \notin Ids(db.stories) THEN db
  ELSE LET segs == Cascade(db, storyId)
           cps == { c \in db.choice_points : c.segment_id \in Ids(segs) }
       IN  MkDb({ r \in db.stories : r.id # storyId },
                db.story_segments \ segs,
                db.choice_points \ cps,
                { o \in db.choice_options : o.choice_point_id \notin Ids(cps) })

(* the tables become db *)
Commit(db) ==
  /\ stories' = db.stories
  /\ story_segments' = db.story_segments
  /\ choice_points' = db.choice_points
  /\ choice_options' = db.choice_options

----------------------------------------------------------------------------
(* StoryGenerationService *)

(* parseFullStoryResponse: the content is the response up to the first     *)
(* "Choice Point N:" marker when extractChoicePoints found a choice point. *)
(* The modelled responses hold no "chose Option A (...)" phrase.           *)
parseFullStoryResponse(response) ==
  [content |-> [response EXCEPT !.cps = 0], choicePoints |-> response.cps]

(* an improvement test that looks at the score only *)
AttemptsImprovementScoreOnly(safetyResult) ==
  ~safetyResult.isSafe /\ safetyResult.score < ImprovementThreshold

(* generateStoryContent: if (!safetyResult.isSafe && needsImprovement(safetyResult)) *)
AttemptsImprovement(safetyResult) == ~safetyResult.isSafe /\ needsImprovement(safetyResult)

(* improveStoryContent after its generateCompletion call has finished:     *)
(* the trimmed completion, or null (here EmptyText, as falsy as "")        *)
improveStoryContent(call) ==
  IF call.pc = "returned" THEN call.result.text ELSE EmptyText

(* an improvement whose output is parsed again, choice points included *)
AfterImprovementReparsed(storyContent, improvedContent) ==
  IF improvedContent # EmptyText
  THEN parseFullStoryResponse(improvedContent)
  ELSE storyContent

(* an assignment of improvedContent that is not guarded *)
AfterImprovementUnguarded(storyContent, improvedContent) ==
  [storyContent EXCEPT !.content = improvedContent]

(* generateStoryContent: if (improvedContent) *)
AfterImprovement(storyContent, improvedContent) ==
  IF improvedContent # EmptyText
  THEN [storyContent EXCEPT !.content = improvedContent]
  ELSE storyContent

(* generateStoryContent: !storyContent.content || content.trim().length === 0 *)
ContentIsEmpty(storyContent) == storyContent.content = EmptyText

----------------------------------------------------------------------------
(* PlaceholderUtils                                                        *)
(*                                                                         *)
(* A text with placeholders is a sequence of tokens: a placeholder token   *)
(* or a piece of text without one. "$&" is the replacement pattern of      *)
(* String.prototype.replace that stands for the matched substring.         *)

Placeholders ==
  { "[CHILD_NAME]", "[CHILD_AGE]", "[FAVORITE_ANIMAL]", "[FAVORITE_COLOR]",
    "[BEST_FRIEND]", "[CURRENT_INTEREST]" }

MatchedPattern == "$&"

(* childProfileSchema: name is letters and spaces only *)
Names == {"Emma"}

(* a text of up to MaxTokens tokens; "once" is a piece without placeholder *)
TokenTexts ==
  UNION { [1 .. n -> Placeholders \cup {"once"}] : n \in 0 .. MaxTokens }

(* childProfileSchema: favoriteAnimal, favoriteColor, bestFriend and       *)
(* currentInterest are strings bounded in length only; each placeholder    *)
(* token fits the bound of each of them                                    *)
FreeValues(plain) ==
  {<<plain>>, <<MatchedPattern>>} \cup { <<t>> : t \in Placeholders }

Absent == <<>>

PlainProfile(name, age) ==
  [name |-> <<name>>, age |-> age, favoriteAnimal |-> <<"unicorn">>,
   favoriteColor |-> <<"purple">>, bestFriend |-> <<"Sam">>,
   currentInterest |-> <<"stars">>]

(* valid profiles: the plain one, and the plain one with one field changed *)
Profiles(age) ==
  UNION { LET p == PlainProfile(name, age)
          IN  {p}
              \cup { [p EXCEPT !.favoriteAnimal = v] : v \in FreeValues("unicorn") }
              \cup { [p EXCEPT !.favoriteColor = v] : v \in FreeValues("purple") }
              \cup { [p EXCEPT !.bestFriend = v] : v \in FreeValues("Sam") \cup {Absent} }
              \cup { [p EXCEPT !.currentInterest = v] : v \in FreeValues("stars") \cup {Absent} }
        : name \in Names }

(* result.replace(/token/g, value); Replacement: the replacement string as *)
(* replace() inserts it for a match of token                               *)
ReplaceAll(text, token, value) ==
  LET Replacement ==
        [j \in 1 .. Len(value) |->
           IF value[j] = MatchedPattern THEN token ELSE value[j]]
      F[i \in 0 .. Len(text)] ==
        IF i = 0 THEN <<>>
        ELSE F[i - 1] \o (IF text[i] = token THEN Replacement ELSE <<text[i]>>)
  IN  F[Len(text)]

(* bestFriend and currentInterest are replaced only if set:                *)
(* if (profile.bestFriend) / if (profile.currentInterest)                  *)
replacePlaceholders(content, profile) ==
  LET r1 == ReplaceAll(content, "[CHILD_NAME]", profile.name)
      r2 == ReplaceAll(r1, "[CHILD_AGE]", <<ToString(profile.age)>>)
      r3 == ReplaceAll(r2, "[FAVORITE_ANIMAL]", profile.favoriteAnimal)
      r4 == ReplaceAll(r3, "[FAVORITE_COLOR]", profile.favoriteColor)
      r5 == IF profile.bestFriend # Absent
            THEN ReplaceAll(r4, "[BEST_FRIEND]", profile.bestFriend) ELSE r4
  IN  IF profile.currentInterest # Absent
      THEN ReplaceAll(r5, "[CURRENT_INTEREST]", profile.currentInterest) ELSE r5

(* passes: how often replacePlaceholders was applied; source: its last     *)
(* argument; text: its last result                                         *)
NoDelivery ==
  [passes |-> 0, profile |-> PlainProfile("Emma", MinAge), source |-> <<>>, text |-> <<>>]

(* op: "none", "saveStory", "saveStorySegments" or "deleteStory"; ok: the  *)
(* call returned (FALSE: it threw); ran: the inserts that ran without      *)
(* throwing, for deleteStory the rows it removed; storyId: the story of    *)
(* the call                                                                *)
NoOp == [op |-> "none", ok |-> TRUE, ran |-> 0, storyId |-> Null]

(* call: per visitor its getNextSegment request (seenBefore: a segment had *)
(* been returned for its pair when it arrived; created: the segments it    *)
(* added to the story); returned: <<segmentId, choiceId, id>> for every    *)
(* segment id returned                                                     *)
NoVisit ==
  [pc |-> "idle", storyId |-> Null, segmentId |-> Null, choiceId |-> Null,
   seenBefore |-> FALSE, created |-> 0, result |-> Null]

SideInit ==
  /\ delivery = NoDelivery
  /\ lastOp = NoOp
  /\ visits = [call |-> [v \in Visitors |-> NoVisit], returned |-> {}]

(* a text is resolved for a profile *)
Resolve(text, profile) ==
  /\ delivery.passes = 0
  /\ delivery' = [passes |-> 1, profile |-> profile, source |-> text,
                  text |-> replacePlaceholders(text, profile)]
  /\ UNCHANGED <<orchVars, flowVars, lastOp, visits>>

(* the resolved text is resolved again for the same profile *)
ResolveAgain ==
  /\ delivery.passes = 1
  /\ delivery' = [delivery EXCEPT !.passes = 2, !.source = delivery.text,
                    !.text = replacePlaceholders(delivery.text, delivery.profile)]
  /\ UNCHANGED <<orchVars, flowVars, lastOp, visits>>

----------------------------------------------------------------------------
(* Story options (StoryGenerationService, parsing and validation)          *)
(*                                                                         *)
(* A title is the sequence of its words, lower-cased. A description is     *)
(* [len, words, bad, opening, origin]: its length in characters, its       *)
(* number of words, the number of words of validateStoryDescription's list *)
(* it contains, the words its first sentence starts with (<<>>: a start no *)
(* other description has) and where its text comes from: "model" (parsed   *)
(* from the model output), "default" (a built-in text) or "local" (made up *)
(* by generateStoryOptions). A story option is [title, titleOrigin,        *)
(* description, preview]; energy levels, durations and tags are left out.  *)

Range(s) == { s[k] : k \in DOMAIN s }

(* the length of the words joined by single spaces *)
RECURSIVE Chars(_)
Chars(words) ==
  IF words = <<>> THEN 0
  ELSE Len(Head(words)) + (IF Len(words) > 1 THEN 1 ELSE 0) + Chars(Tail(words))

MkDescription(len, words, bad, opening, origin) ==
  [len |-> len, words |-> words, bad |-> bad, opening |-> opening, origin |-> origin]

(* let description = '' *)
NoDescription == MkDescription(0, 0, 0, <<>>, "model")

MkOption(title, titleOrigin, description, preview) ==
  [title |-> title, titleOrigin |-> titleOrigin, description |-> description,
   preview |-> preview]

(* The answer to a single-story prompt. title, description: the values of  *)
(* its "TITLE:" and "DESCRIPTION:" lines (<<>>, NoDescription: no such     *)
(* line); firstLine: the first line without a quotation mark inside (<<>>: *)
(* none); labelled: what follows "Description:" or "Summary:" up to the    *)
(* next field; secondLine: the second line of the text.                    *)
(* StructuredOption: "STORY 1:", "TITLE: ...", "DESCRIPTION: ...",         *)
(* "DURATION: ..."                                                         *)
StructuredOption(title, description) ==
  [title |-> title, description |-> description,
   firstLine |-> <<"title:">> \o title, labelled |-> description,
   secondLine |-> [description EXCEPT !.len = @ + Len("DESCRIPTION: "),
                                      !.words = @ + 1,
                                      !.opening = <<"description:">>]]

(* a text without the fields of the prompt *)
PlainOption(firstLine, secondLine) ==
  [title |-> <<>>, description |-> NoDescription, firstLine |-> firstLine,
   labelled |-> NoDescription, secondLine |-> secondLine]

(* parseStoryOptionBlock: the options of the block (it yields one); its    *)
(* defaults are 'Untitled Story' and 'A wonderful adventure awaits!'       *)
parseStoryOptionBlock(block) ==
  LET untitled == <<"untitled", "story">>
      awaits == <<"a", "wonderful", "adventure", "awaits!">>
  IN  << MkOption(IF block.firstLine # <<>> THEN block.firstLine ELSE untitled,
                  IF block.firstLine # <<>> THEN "model" ELSE "default",
                  IF block.labelled.len > 0 THEN block.labelled
                  ELSE IF block.secondLine.len > 0 THEN block.secondLine
                  ELSE MkDescription(Chars(awaits), Len(awaits), 0, awaits, "default"),
                  <<>>) >>

(* parseStoryOptionsResponseFallback(response, 1); ok = FALSE: it throws *)
parseStoryOptionsResponseFallback(response) ==
  LET options == IF response = EmptyText THEN <<>> ELSE parseStoryOptionBlock(response)
  IN  [ok |-> options # <<>>, stories |-> options]

(* parseStoryOptionsResponse(response, 1) *)
parseStoryOptionsResponse(response) ==
  IF /\ response # EmptyText
     /\ response.title # <<>>
     /\ response.description.len > MinParsedDescription
  THEN [ok |-> TRUE,
        stories |-> << MkOption(response.title, "model", response.description, <<>>) >>]
  ELSE parseStoryOptionsResponseFallback(response)

validateStoryDescription(description) ==
  LET tooShort == description.words < MinDescriptionWords
      tooLong == description.words > MaxDescriptionWords
      score == 100 - BadWordPenalty * description.bad
               - (IF tooShort THEN ShortPenalty ELSE 0)
               - (IF tooLong THEN LongPenalty ELSE 0)
  IN  [isSafe |-> description.bad = 0 /\ ~tooShort /\ ~tooLong, score |-> Max(0, score)]

(* a validateStoryOptions that keeps the first story only *)
validateStoryOptionsFirstOnly(options) == SubSeq(options, 1, Min(1, Len(options)))

(* validateStoryOptions; PassesValidation: the test of one story *)
validateStoryOptions(options) ==
  LET PassesValidation(story) ==
        /\ ~(\/ Chars(story.title) < MinTitleLength
             \/ story.description.len < MinDescriptionLength)
        /\ LET safetyResult == validateStoryDescription(story.description)
           IN  safetyResult.isSafe \/ safetyResult.score >= DescriptionSafeScore
      validatedStories == SelectSeq(options, PassesValidation)
  IN  IF Len(validatedStories) > 0 THEN validatedStories
      ELSE SubSeq(options, 1, Min(1, Len(options)))

(* generateUniqueTitle: the titles Math.random can give *)
generateUniqueTitle(originalTitle, otherTitle) ==
  LET Synonyms ==
        [w \in {"great", "green", "garden", "rabbit", "adventure", "race", "rescue"} |->
           CASE w = "great" -> <<"amazing", "wonderful", "fantastic", "incredible">>
             [] w = "green" -> <<"emerald", "lush", "vibrant", "bright">>
             [] w = "garden" -> <<"meadow", "grove", "patch", "plot">>
             [] w = "rabbit" -> <<"bunny", "hare", "cottontail", "hoppity">>
             [] w = "adventure" -> <<"journey", "quest", "expedition", "exploration">>
             [] w = "race" -> <<"chase", "pursuit", "hunt", "search">>
             [] w = "rescue" -> <<"save", "help", "aid", "assist">>]
      replaced == { k \in DOMAIN originalTitle :
                      originalTitle[k] \in Range(otherTitle)
                      /\ originalTitle[k] \in DOMAIN Synonyms }
  IN  { [k \in DOMAIN originalTitle |->
           IF k \in replaced THEN Synonyms[originalTitle[k]][r[k]] ELSE originalTitle[k]] :
        r \in [replaced -> 1 .. 4] }

(* hasSimilarOpening: both start with the same words *)
hasSimilarOpening(opening1, opening2) == opening1 # <<>> /\ opening1 = opening2

(* fixRepetitiveOpening(description, storyIndex): the pattern and a space  *)
(* are put before the first sentence                                       *)
fixRepetitiveOpening(description, storyIndex) ==
  LET openingPatterns ==
        << <<"[child_name]", "had", "always", "dreamed", "of">>,
           <<"in", "the", "quiet">>,
           <<"the", "day", "started", "like", "any", "other,", "until">>,
           <<"a", "mysterious">>,
           <<"when", "[child_name]", "discovered">>,
           <<"in", "a", "world", "where">>,
           <<"as", "[child_name]", "explored">>,
           <<"the", "moment", "[child_name]", "found">> >>
      newOpening == openingPatterns[(storyIndex % Len(openingPatterns)) + 1]
  IN  [description EXCEPT !.len = @ + Chars(newOpening) + 1,
                          !.words = @ + Len(newOpening),
                          !.opening = newOpening]

(* enforceDiversity, the body of the loops for options i < j (from 1) *)
DiversifyPair(options, i, j) ==
  LET story1 == options[i]
      story2 == options[j]
      commonWords == { k \in DOMAIN story1.title :
                         story1.title[k] \in Range(story2.title)
                         /\ Len(story1.title[k]) > 3 }
      titles == IF Cardinality(commonWords) > 1
                THEN generateUniqueTitle(story2.title, story1.title)
                ELSE {story2.title}
      description == IF hasSimilarOpening(story1.description.opening,
                                          story2.description.opening)
                     THEN fixRepetitiveOpening(story2.description, j - 1)
                     ELSE story2.description
  IN  { [options EXCEPT ![j] = [story2 EXCEPT !.title = title,
                                              !.description = description]] :
        title \in titles }

(* enforceDiversity: the lists it can return. PairsFrom: the pairs         *)
(* i < j <= n in the order of the loops, from <<i, j>> on                  *)
enforceDiversity(options) ==
  LET RECURSIVE PairsFrom(_, _, _)
      PairsFrom(i, j, n) ==
        IF i >= n THEN <<>>
        ELSE IF j > n THEN PairsFrom(i + 1, i + 2, n)
        ELSE <<<<i, j>>>> \o PairsFrom(i, j + 1, n)
      RECURSIVE DiversifyAll(_, _)
      DiversifyAll(lists, pairs) ==
        IF pairs = <<>> THEN lists
        ELSE DiversifyAll(UNION { DiversifyPair(list, Head(pairs)[1], Head(pairs)[2]) :
                                  list \in lists },
                          Tail(pairs))
  IN  IF Len(options) < 2 THEN {options}
      ELSE DiversifyAll({options}, PairsFrom(1, 2, Len(options)))

(* selectMostDistinctPreviews. Overlap: the sizes of the intersection and  *)
(* the union; Farther: jaccardDist of x is greater than jaccardDist of y;  *)
(* SelectDistinct: the greedy loop                                         *)
selectMostDistinctPreviews(options, k) ==
  IF Len(options) <= k THEN options
  ELSE LET sets == [i \in DOMAIN options |-> Range(options[i].preview)]
           Overlap(a, b) ==
             [inter |-> Cardinality(a \cap b), uni |-> Cardinality(a \cup b)]
           Farther(x, y) == x.inter * y.uni < y.inter * x.uni
           RECURSIVE SelectDistinct(_, _)
           SelectDistinct(chosen, remaining) ==
             IF Len(chosen) >= k \/ remaining = {} THEN chosen
             ELSE LET d(idx) ==
                        LET nearest == CHOOSE s \in Range(chosen) :
                                         \A t \in Range(chosen) :
                                           ~Farther(Overlap(sets[s], sets[idx]),
                                                    Overlap(sets[t], sets[idx]))
                        IN  Overlap(sets[nearest], sets[idx])
                      bestIdx ==
                        CHOOSE idx \in remaining :
                          /\ \A o \in remaining : o < idx => Farther(d(idx), d(o))
                          /\ \A o \in remaining : o > idx => ~Farther(d(o), d(idx))
                  IN  SelectDistinct(Append(chosen, bestIdx), remaining \ {bestIdx})
           firstIdx == CHOOSE i \in DOMAIN options :
                         /\ \A o \in DOMAIN options :
                              o < i => Cardinality(sets[i]) > Cardinality(sets[o])
                         /\ \A o \in DOMAIN options :
                              o > i => Cardinality(sets[o]) <= Cardinality(sets[i])
           selected == SelectDistinct(<<firstIdx>>, DOMAIN options \ {firstIdx})
       IN  [n \in DOMAIN selected |-> options[selected[n]]]

(* generateStoryOptions, count >= 4, after its completion has returned.    *)
(* lines: the lines of the answer; previews: the previews after the        *)
(* padding loop, each with the origin of its text; allOptions: a           *)
(* description is its preview and the full stop                            *)
ShortPreviews(response, count) ==
  LET lines == IF response = EmptyText THEN <<>> ELSE response.lines
      padding == <<"a", "quiet", "bedtime", "idea", "about", "[child_name]", "and",
                   "a", "gentle", "adventure">>
      previews ==
        [k \in 1 .. Max(Len(lines), count) |->
           IF k <= Len(lines) THEN [text |-> lines[k], origin |-> "model"]
           ELSE [text |-> padding, origin |-> "local"]]
      allOptions ==
        [i \in DOMAIN previews |->
           MkOption(<<"short", "idea", ToString(i)>>, "local",
                    MkDescription(Chars(previews[i].text) + 1, Len(previews[i].text),
                                  0, <<>>, previews[i].origin),
                    previews[i].text)]
  IN  selectMostDistinctPreviews(allOptions, SelectedPreviews)

----------------------------------------------------------------------------
(* Persisting a generated story *)

(* StoryController.generateStoryContent: mockStoryOption *)
mockStoryOption(storyId, profile) ==
  [id |-> storyId,
   title |-> <<"Adventure for">> \o profile.name,
   description |-> <<"A personalized story featuring">> \o profile.name
                   \o <<"and their favorite">>
                   \o (IF profile.favoriteAnimal # Absent THEN profile.favoriteAnimal
                       ELSE <<"animal">>),
   energyLevel |-> "medium",
   preview |-> <<"Join">> \o profile.name \o <<"on an exciting adventure!">>]

(* saveCompleteStory: id: `${storyId}_segment_1` *)
RootSegmentId(storyId) == storyId \o "_segment_1"



(* extractChoicePoints: the choices of a choice point are 'A' and 'B' *)
ChoiceIds == <<"A", "B">>

(* saveCompleteStory: DatabaseService.saveStory(storyOption, ...,          *)
(* [initialSegment]); extractChoicePoints gives a choice point the id      *)
(* choice_<Date.now()>-<random>-<random>-<random>, an id no other          *)
(* extraction yields                                                       *)
saveCompleteStory(db, storyId, storyOption, storyContent) ==
  LET initialSegment ==
        [id |-> RootSegmentId(storyId), storyId |-> storyId,
         parentSegmentId |-> Null, choiceId |-> Null,
         choicePoints |->
           [j \in 1 .. storyContent.choicePoints |->
              [id |-> "choice_" \o storyId \o "_" \o ToString(j),
               choices |-> ChoiceIds]]]
  IN  saveStory(db, storyOption, <<initialSegment>>)

----------------------------------------------------------------------------
(* Requests and their validation (utils/validation.ts)                     *)



MkRequestProfile(name, age, favoriteAnimal) ==
  [name |-> name, age |-> age, favoriteAnimal |-> favoriteAnimal, favoriteColor |-> "blue"]

(* generateStories: req.query.count ? parseInt(req.query.count, 10) : 3;   *)
(* query.given tells whether the query has a count                         *)
CountOf(query) == IF query.given THEN query.value ELSE DefaultCount

(* a request body with the story id of the route and the count of the query *)
MkRequest(storyId, profile, count) ==
  [storyId |-> storyId, profile |-> profile, count |-> count]

(* Names: the names of the model that match /^[a-zA-Z\s]+$/ *)
childProfileSchema(profile) ==
  /\ Len(profile.name) >= 1 /\ Len(profile.name) <= 50 /\ profile.name \in Names
  /\ profile.age >= MinAge /\ profile.age <= MaxAge
  /\ Len(profile.favoriteAnimal) >= 1 /\ Len(profile.favoriteAnimal) <= 30
  /\ Len(profile.favoriteColor) >= 1 /\ Len(profile.favoriteColor) <= 20

(* a request schema without the limits of count *)
validateGenerateStoriesRequestAnyCount(request) == childProfileSchema(request.profile)

(* validateGenerateStoriesRequest(...).isValid *)
validateGenerateStoriesRequest(request) ==
  /\ childProfileSchema(request.profile)
  /\ request.count >= MinCount /\ request.count <= MaxCount

(* generateStoryContent: !storyId, then                                    *)
(* validateGenerateStoryContentRequest(...).isValid                        *)
validateGenerateStoryContentRequest(request) ==
  /\ request.storyId # ""
  /\ Len(request.storyId) >= 1
  /\ childProfileSchema(request.profile)

(* request: the request being served; i: the single-story completions that *)
(* have settled; stories: the options gathered, at the end the options     *)
(* returned; returned: the completions that returned a text; texts: the    *)
(* texts they returned; prompt: the last prompt built from the profile     *)
(* (<<>>: none yet)                                                        *)
NoOptions ==
  [request |-> MkRequest("none", MkRequestProfile("Emma", MinAge, "cat"), DefaultCount),
   i |-> 0, stories |-> <<>>, returned |-> 0, texts |-> <<>>, prompt |-> <<>>]

----------------------------------------------------------------------------
(* Callers of the orchestrator *)

RawReplies ==
  {MkReply("content", MkText(150, NoWords, 0, -1, 0)), BlankReply} \cup FailingReplies

OrchInit ==
  /\ currentModel = "PRIMARY"
  /\ calls = [c \in Callers |-> NoCall]

NoSafety == [isSafe |-> FALSE, issues |-> <<>>, score |-> 0, recommendations |-> <<>>]

NoStory == [content |-> EmptyText, choicePoints |-> 0]

(* checked: checkContentSafety has returned; aiUnavailable: the completion *)
(* of the model pass threw; remediations: calls of improveStoryContent;    *)
(* improved: "none", "replaced", "empty" (no output) or "failed";          *)
(* saved: "no", "yes" or "rejected" (saveStory threw)                      *)
NoTrace ==
  [checked |-> FALSE, aiUnavailable |-> FALSE, remediations |-> 0,
   improved |-> "none", saved |-> "no"]

FlowInit ==
  /\ fpc = "idle"
  /\ fop = "none"
  /\ freq = [storyId |-> "none", age |-> MinAge]
  /\ fstory = NoStory
  /\ forig = NoStory
  /\ fbasic = NoSafety
  /\ fai = NoSafety
  /\ fsafety = NoSafety
  /\ ftrace = NoTrace
  /\ fresult = "none"
  /\ opts = NoOptions
  /\ stories = {}
  /\ story_segments = {}
  /\ choice_points = {}
  /\ choice_options = {}

Init == OrchInit /\ FlowInit /\ SideInit

Call(c) ==
  \E fallbackToPaid \in BOOLEAN :
    GenerateCompletion(c, fallbackToPaid) /\ UNCHANGED <<flowVars, sideVars>>

RemoteSucceeds(c) ==
  \E reply \in RawReplies :
    ~TierFails(reply) /\ RemoteSettles(c, reply) /\ UNCHANGED <<flowVars, sideVars>>

RemoteFails(c) ==
  \E reply \in RawReplies :
    TierFails(reply) /\ RemoteSettles(c, reply) /\ UNCHANGED <<flowVars, sideVars>>

OrchNext == \E c \in Callers : Call(c) \/ RemoteSucceeds(c) \/ RemoteFails(c)

SpecOrch == Init /\ [][OrchNext]_vars

----------------------------------------------------------------------------
(* The request flows: StoryController.validateContent and                  *)
(* StoryGenerationService.generateStoryContent. A flow step runs from one  *)
(* await of a remote completion to the next.                               *)

FlowCaller == 1

StoryIds == {"story-1"}

(* the ages of the profiles of generateStoryContent requests: the bounds   *)
(* of the schema, the age whose minWords is 100 and the age whose maxWords *)
(* is 800                                                                  *)
GenerateAges == {MinAge, 5, 10, MaxAge}

RubricWords == 40

(* word counts on both sides of every length threshold of the two passes *)
WordCounts(age) ==
  (0 .. Slack)
  \cup UNION { (t - Slack) .. (t + Slack - 1) : t \in {age * MinWordsPerYear, MinStoryWords} }
  \cup UNION { (t - Slack + 1) .. (t + Slack) : t \in {age * MaxWordsPerYear, MaxStoryWords} }

(* the texts sent for validation: at most MaxBlocked block-list words *)
StoryTexts(age) ==
  { MkText(nb[1], nb[2], 0, -1, 0) :
      nb \in { x \in WordCounts(age) \X Bags : BagSize(x[2]) <= x[1] } }

IsStoryText(text, age) ==
  /\ text.words \in WordCounts(age)
  /\ BagSize(text.bag) <= Min(MaxBlocked, text.words)

(* what the backend may answer to the story prompt: a story with at most   *)
(* one block-list word and up to MaxChoicePoints choice points             *)
StoryReplies(age) ==
  ({ MkReply("content", [t EXCEPT !.cps = k]) :
       t \in {x \in StoryTexts(age) : BagSize(x.bag) <= 1}, k \in 0 .. MaxChoicePoints }
     \ {MkReply("content", EmptyText)})
  \cup {BlankReply} \cup FailingReplies

RubricScores == {0, 74, 75, 79, 80, 81, 100, 150}

(* what the backend may answer to the safety prompt *)
RubricReplies ==
  { MkReply("content", MkText(RubricWords, NoWords, 0, s, k)) :
      s \in RubricScores \cup {-1}, k \in {0, 1} }
  \cup {BlankReply} \cup FailingReplies

(* req.body.profile of the request in progress *)
RequestProfile == PlainProfile("Emma", freq.age)

StartFlow(op, storyId, age, story, basic) ==
  /\ fop' = op
  /\ freq' = [storyId |-> storyId, age |-> age]
  /\ fstory' = story
  /\ forig' = story
  /\ fbasic' = basic
  /\ fai' = NoSafety
  /\ fsafety' = NoSafety
  /\ ftrace' = NoTrace

(* validateContent: !content *)
ValidateRejected(age) ==
  /\ fpc = "idle"
  /\ StartFlow("validate", "none", age, NoStory, NoSafety)
  /\ fpc' = "done"
  /\ fresult' = "rejected"
  /\ UNCHANGED <<opts, storeVars, sideVars, currentModel, calls>>

(* validateContent -> checkContentSafety up to the await of the model pass *)
CheckContentSafety(content, age) ==
  /\ content # EmptyText
  /\ StartFlow("validate", "none", age, [content |-> content, choicePoints |-> 0],
               performBasicSafetyChecks(content, age))
  /\ GenerateCompletion(FlowCaller, FALSE)
  /\ fpc' = "ai_wait"
  /\ fresult' = "none"
  /\ UNCHANGED <<opts, storeVars, sideVars>>

ValidateContent(content, age) ==
  fpc = "idle" /\ CheckContentSafety(content, age)

(* the next validateContent request brings the content just validated with *)
(* one more block-list word, for the same profile                          *)
ValidateRevised(word) ==
  /\ fpc = "done" /\ fop = "validate" /\ fresult = "ok"
  /\ IsStoryText(AddBlockedWord(fstory.content, word), freq.age)
  /\ CheckContentSafety(AddBlockedWord(fstory.content, word), freq.age)

(* the response of the request is sent; the flow is at rest again *)
Respond ==
  /\ fpc = "done"
  /\ StartFlow("none", "none", MinAge, NoStory, NoSafety)
  /\ fpc' = "idle"
  /\ fresult' = "none"
  /\ calls' = [calls EXCEPT ![FlowCaller] = NoCall]
  /\ opts' = NoOptions
  /\ UNCHANGED <<storeVars, sideVars, currentModel>>

(* PromptBuilder: a prompt is the sequence of its pieces, like the texts   *)
(* of PlaceholderUtils; the pieces that come from the arguments are kept   *)
(* apart from the fixed wording                                            *)
buildSingleStoryPrompt(profile) ==
  <<"Create ONE clear story summary for a", ToString(profile.age), "-year-old using",
    "[CHILD_NAME]", "as a placeholder.">>

buildShortPreviewPrompt(profile, count) ==
  <<"Produce exactly", ToString(count), "distinct, one-sentence story ideas for a",
    ToString(profile.age), "-year-old child. Use the placeholder", "[CHILD_NAME]",
    "if the child's name is necessary.">>

buildFullStoryPrompt(profile, storyOption) ==
  <<"Write a warm, age-appropriate opening segment for a bedtime story for a",
    ToString(profile.age), "-year-old. Use", "[CHILD_NAME]",
    "as the main character placeholder.", "Story Title:">>
  \o storyOption.title
  \o <<"Story Brief:">>
  \o storyOption.description
  \o <<"Do NOT reveal the child's real name.">>

(* the body of a generateStoryContent request of the model's child *)
ContentRequest(storyId, age) ==
  MkRequest(storyId, MkRequestProfile("Emma", age, "cat"), DefaultCount)

(* generateStoryContent up to the await of the story completion *)
GenerateStoryContent(storyId, age) ==
  /\ fpc = "idle"
  /\ validateGenerateStoryContentRequest(ContentRequest(storyId, age))
  /\ StartFlow("generate", storyId, age, NoStory, NoSafety)
  /\ opts' = [NoOptions EXCEPT
                !.request = ContentRequest(storyId, age),
                !.prompt = buildFullStoryPrompt(
                             PlainProfile("Emma", age),
                             mockStoryOption(storyId, PlainProfile("Emma", age)))]
  /\ GenerateCompletion(FlowCaller, TRUE)
  /\ fpc' = "gen_wait"
  /\ fresult' = "none"
  /\ UNCHANGED <<storeVars, sideVars>>

(* generateStoryContent: the request is answered 400 VALIDATION_ERROR *)
StoryContentRejected(request) ==
  /\ fpc = "idle"
  /\ ~validateGenerateStoryContentRequest(request)
  /\ StartFlow("generate", request.storyId, request.profile.age, NoStory, NoSafety)
  /\ opts' = [NoOptions EXCEPT !.request = request]
  /\ fpc' = "done"
  /\ fresult' = "invalid"
  /\ UNCHANGED <<storeVars, sideVars, currentModel, calls>>

(* a tier of the story completion fails and the next tier is tried *)
StoryTierFallsBack(reply) ==
  /\ fpc = "gen_wait"
  /\ AfterReply(calls[FlowCaller], reply).pc = "awaiting"
  /\ RemoteSettles(FlowCaller, reply)
  /\ UNCHANGED <<flowVars, sideVars>>

(* generateStoryContent: the story completion throws; catch block *)
GenerationFails(reply) ==
  /\ fpc = "gen_wait"
  /\ AfterReply(calls[FlowCaller], reply).pc = "thrown"
  /\ RemoteSettles(FlowCaller, reply)
  /\ fpc' = "done"
  /\ fresult' = "error"
  /\ UNCHANGED <<opts, fop, freq, fstory, forig, fbasic, fai, fsafety, ftrace, storeVars, sideVars>>

(* generateStoryContent: the story completion returns; the response is     *)
(* parsed and checkContentSafety runs up to the await of the model pass    *)
GenerationReturns(reply) ==
  /\ fpc = "gen_wait"
  /\ LET call == AfterReply(calls[FlowCaller], reply)
         storyContent == parseFullStoryResponse(call.result.text)
     IN  /\ call.pc = "returned"
         /\ fstory' = storyContent
         /\ forig' = storyContent
         /\ fbasic' = performBasicSafetyChecks(storyContent.content, freq.age)
  /\ NextCompletion(FlowCaller, FALSE)
  /\ fpc' = "ai_wait"
  /\ UNCHANGED <<opts, fop, freq, fai, fsafety, ftrace, fresult, storeVars, sideVars>>

(* generateStoryContent from the empty-content test to its return:         *)
(* saveCompleteStory, then the response; any throw ends in the catch block *)
FinishGeneration(storyContent, trace) ==
  LET tx == saveCompleteStory(Db, freq.storyId,
                              mockStoryOption(freq.storyId, RequestProfile),
                              storyContent)
      saved == IF ContentIsEmpty(storyContent) THEN "no"
               ELSE IF tx.ok THEN "yes" ELSE "rejected"
  IN  /\ fstory' = storyContent
      /\ ftrace' = [trace EXCEPT !.saved = saved]
      /\ Commit(IF saved = "yes" THEN tx.db ELSE Db)
      /\ fresult' = IF saved = "yes" THEN "ok" ELSE "error"
      /\ fpc' = "done"

(* the model pass settles: performAISafetyCheck and combineSafetyResults *)
ModelPassSettles(reply) ==
  /\ fpc = "ai_wait"
  /\ LET call == AfterReply(calls[FlowCaller], reply) IN
       /\ fai' = performAISafetyCheck(call)
       /\ fsafety' = combineSafetyResults(fbasic, performAISafetyCheck(call))

TraceModelPass(reply) ==
  [ftrace EXCEPT !.checked = TRUE, !.aiUnavailable = TierFails(reply)]

(* validateContent: checkContentSafety returns and the result is sent *)
ValidationCompletes(reply) ==
  /\ fop = "validate"
  /\ ModelPassSettles(reply)
  /\ RemoteSettles(FlowCaller, reply)
  /\ ftrace' = TraceModelPass(reply)
  /\ fpc' = "done"
  /\ fresult' = "ok"
  /\ UNCHANGED <<opts, fop, freq, fstory, forig, fbasic, storeVars, sideVars>>

(* generateStoryContent: the safety result asks for improvement;           *)
(* improveStoryContent up to the await of its completion                   *)
ImprovementStarts(reply) ==
  /\ fop = "generate"
  /\ ModelPassSettles(reply)
  /\ AttemptsImprovement(fsafety')
  /\ NextCompletion(FlowCaller, FALSE)
  /\ ftrace' = [TraceModelPass(reply) EXCEPT !.remediations = @ + 1]
  /\ fpc' = "improve_wait"
  /\ UNCHANGED <<opts, fop, freq, fstory, forig, fbasic, fresult, storeVars, sideVars>>

(* generateStoryContent: no improvement is attempted *)
GenerationCompletes(reply) ==
  /\ fop = "generate"
  /\ ModelPassSettles(reply)
  /\ ~AttemptsImprovement(fsafety')
  /\ RemoteSettles(FlowCaller, reply)
  /\ FinishGeneration(fstory, TraceModelPass(reply))
  /\ UNCHANGED <<opts, fop, freq, forig, fbasic, sideVars>>

(* an improveStoryContent that is called again after it settled *)
ImprovementSettlesAndRepeats(reply) ==
  /\ fpc = "improve_wait"
  /\ ftrace.remediations < 2
  /\ AfterReply(calls[FlowCaller], reply).pc \in {"returned", "thrown"}
  /\ NextCompletion(FlowCaller, FALSE)
  /\ ftrace' = [ftrace EXCEPT !.remediations = @ + 1]
  /\ UNCHANGED <<opts, fpc, fop, freq, fstory, forig, fbasic, fai, fsafety, fresult,
                 storeVars, sideVars>>

(* generateStoryContent: improveStoryContent settles *)
ImprovementSettles(reply) ==
  /\ fpc = "improve_wait"
  /\ RemoteSettles(FlowCaller, reply)
  /\ LET call == AfterReply(calls[FlowCaller], reply)
         improvedContent == improveStoryContent(call)
         outcome == IF call.pc = "thrown" THEN "failed"
                    ELSE IF improvedContent = EmptyText THEN "empty" ELSE "replaced"
     IN  FinishGeneration(AfterImprovement(fstory, improvedContent),
                          [ftrace EXCEPT !.improved = outcome])
  /\ UNCHANGED <<opts, fop, freq, forig, fbasic, fai, fsafety, sideVars>>

(* what the backend may answer to a single-story prompt *)
OptionReplies ==
  LET goodTitle == <<"great", "moonlight", "song">>
      goodDescription ==
        MkDescription(120, 20, 0, <<"one", "sunny", "morning">>, "model")
      texts ==
        { StructuredOption(goodTitle, goodDescription),
          StructuredOption(<<"cat">>, goodDescription),
          StructuredOption(goodTitle, MkDescription(30, 6, 0, <<>>, "model")),
          PlainOption(<<"sorry,", "i", "cannot", "help">>, NoDescription),
          PlainOption(<<"hi">>, MkDescription(10, 2, 0, <<>>, "model")),
          PlainOption(<<>>, NoDescription) }
  IN  { MkReply("content", t) : t \in texts } \cup {BlankReply} \cup FailingReplies

(* what the backend may answer to the short-preview prompt: numbered       *)
(* one-sentence lines                                                      *)
PreviewReplies ==
  LET texts ==
        { [lines |-> << <<"a", "cat">> >>],
          [lines |-> << <<"a", "cat">>, <<"the", "moon", "sings", "softly">>,
                        <<"a", "cat", "naps">>,
                        <<"owl", "and", "moon", "count", "stars">>,
                        <<"a", "boat", "of", "leaves", "sails", "home">> >>] }
  IN  { MkReply("content", t) : t \in texts } \cup {BlankReply} \cup FailingReplies

(* the requests of generateStories: a valid one, and it with one part      *)
(* changed                                                                 *)
StoriesRequests ==
  { MkRequest("none", MkRequestProfile("Emma", MinAge, "cat"), CountOf(query)) :
      query \in {[given |-> FALSE, value |-> 0]}
                \cup { [given |-> TRUE, value |-> n] :
                         n \in (MinCount - 1) .. (MaxCount + 1) } }
  \cup { MkRequest("none", profile, DefaultCount) :
           profile \in { MkRequestProfile("Emma", MinAge - 1, "cat"),
                         MkRequestProfile("Emma", MaxAge + 1, "cat"),
                         MkRequestProfile("", MinAge, "cat"),
                         MkRequestProfile("R2-D2", MinAge, "cat"),
                         MkRequestProfile("Emma", MinAge, "") } }

(* the requests of generateStoryContent that are answered 400 *)
ContentRequests ==
  { MkRequest(storyId, profile, DefaultCount) :
      storyId \in StoryIds \cup {""},
      profile \in { MkRequestProfile("Emma", MinAge, "cat"),
                    MkRequestProfile("Emma", MinAge - 1, "cat"),
                    MkRequestProfile("Emma", MaxAge + 1, "cat"),
                    MkRequestProfile("R2-D2", MinAge, "cat"),
                    MkRequestProfile("Emma", MinAge, "") } }

(* generateStories: the request is answered 400 VALIDATION_ERROR *)
GenerateStoriesRejected(request) ==
  /\ fpc = "idle"
  /\ ~validateGenerateStoriesRequest(request)
  /\ StartFlow("options", "none", request.profile.age, NoStory, NoSafety)
  /\ opts' = [NoOptions EXCEPT !.request = request]
  /\ fpc' = "done"
  /\ fresult' = "invalid"
  /\ UNCHANGED <<storeVars, sideVars, currentModel, calls>>

(* generateStories -> generateStoryOptions up to the await of its first    *)
(* completion                                                              *)
GenerateStories(request) ==
  /\ fpc = "idle"
  /\ validateGenerateStoriesRequest(request)
  /\ StartFlow("options", "none", request.profile.age, NoStory, NoSafety)
  /\ opts' = [NoOptions EXCEPT
                !.request = request,
                !.prompt = IF request.count >= ShortPreviewCount
                           THEN buildShortPreviewPrompt(request.profile, request.count)
                           ELSE buildSingleStoryPrompt(request.profile)]
  /\ GenerateCompletion(FlowCaller, TRUE)
  /\ fpc' = IF request.count >= ShortPreviewCount THEN "prev_wait" ELSE "opt_wait"
  /\ fresult' = "none"
  /\ UNCHANGED <<storeVars, sideVars>>

(* a tier of a completion of generateStoryOptions fails and the next tier  *)
(* is tried                                                                *)
OptionsTierFallsBack(reply) ==
  /\ fpc \in {"opt_wait", "prev_wait"}
  /\ AfterReply(calls[FlowCaller], reply).pc = "awaiting"
  /\ RemoteSettles(FlowCaller, reply)
  /\ UNCHANGED <<flowVars, sideVars>>

(* generateStoryOptions, the body of the loop after its completion: the    *)
(* options pushed; a throw of the completion or the parser is swallowed    *)
NewStories(call) ==
  LET newStories == parseStoryOptionsResponse(call.result.text)
  IN  IF call.pc = "returned" /\ newStories.ok
      THEN SubSeq(newStories.stories, 1, Min(1, Len(newStories.stories)))
      ELSE <<>>



(* generateStoryOptions: a single-story completion settles and the next    *)
(* one is awaited                                                          *)
NextOption(reply) ==
  /\ fpc = "opt_wait"
  /\ opts.i + 1 < opts.request.count
  /\ LET call == AfterReply(calls[FlowCaller], reply) IN
       /\ call.pc \in {"returned", "thrown"}
       /\ opts' = [opts EXCEPT !.i = @ + 1, !.stories = @ \o NewStories(call),
                               !.returned = @ + (IF call.pc = "returned" THEN 1 ELSE 0),
                               !.texts = @ \o (IF call.pc = "returned" THEN <<call.result.text>>
                                              ELSE <<>>),
                               !.prompt = buildSingleStoryPrompt(opts.request.profile)]
  /\ NextCompletion(FlowCaller, TRUE)
  /\ UNCHANGED <<fpc, fop, freq, fstory, forig, fbasic, fai, fsafety, ftrace, fresult,
                 storeVars, sideVars>>

(* a generateStoryOptions that goes on without any story *)
NoStoriesGeneratedIgnored(options) == FALSE

(* generateStoryOptions: if (stories.length === 0) throw *)
NoStoriesGenerated(options) == Len(options) = 0

(* generateStoryOptions: the last single-story completion settles; the     *)
(* options are validated and diversified, or the call throws               *)
LastOption(reply) ==
  /\ fpc = "opt_wait"
  /\ opts.i + 1 = opts.request.count
  /\ RemoteSettles(FlowCaller, reply)
  /\ LET call == AfterReply(calls[FlowCaller], reply)
         gathered == opts.stories \o NewStories(call)
     IN  /\ call.pc \in {"returned", "thrown"}
         /\ IF NoStoriesGenerated(gathered)
            THEN /\ opts' = [opts EXCEPT !.i = @ + 1, !.stories = <<>>,
                                         !.returned = @ + (IF call.pc = "returned" THEN 1 ELSE 0),
                                         !.texts = @ \o (IF call.pc = "returned" THEN <<call.result.text>>
                                                        ELSE <<>>)]
                 /\ fresult' = "error"
            ELSE /\ \E diversityEnforcedStories \in
                        enforceDiversity(validateStoryOptions(gathered)) :
                      opts' = [opts EXCEPT !.i = @ + 1,
                                           !.stories = diversityEnforcedStories,
                                           !.returned = @ + (IF call.pc = "returned" THEN 1 ELSE 0),
                                           !.texts = @ \o (IF call.pc = "returned" THEN <<call.result.text>>
                                                          ELSE <<>>)]
                 /\ fresult' = "ok"
  /\ fpc' = "done"
  /\ UNCHANGED <<fop, freq, fstory, forig, fbasic, fai, fsafety, ftrace, storeVars,
                 sideVars>>

(* generateStoryOptions, count >= 4: the completion settles *)
PreviewsSettle(reply) ==
  /\ fpc = "prev_wait"
  /\ RemoteSettles(FlowCaller, reply)
  /\ LET call == AfterReply(calls[FlowCaller], reply) IN
       /\ call.pc \in {"returned", "thrown"}
       /\ opts' = [opts EXCEPT
                     !.stories = IF call.pc = "returned"
                                 THEN ShortPreviews(call.result.text, opts.request.count)
                                 ELSE <<>>,
                     !.returned = @ + (IF call.pc = "returned" THEN 1 ELSE 0),
                     !.texts = @ \o (IF call.pc = "returned" THEN <<call.result.text>>
                                    ELSE <<>>)]
       /\ fresult' = IF call.pc = "returned" THEN "ok" ELSE "error"
  /\ fpc' = "done"
  /\ UNCHANGED <<fop, freq, fstory, forig, fbasic, fai, fsafety, ftrace, storeVars,
                 sideVars>>

FlowNext ==
  \/ fpc = "idle" /\ \E age \in Ages : ValidateRejected(age)
  \/ fpc = "idle" /\ \E age \in Ages : \E content \in StoryTexts(age) : ValidateContent(content, age)
  \/ fpc = "done" /\ \E word \in BlockedVocab : ValidateRevised(word)
  \/ Respond
  \/ fpc = "idle" /\ \E age \in GenerateAges : \E storyId \in StoryIds :
       GenerateStoryContent(storyId, age)
  \/ fpc = "gen_wait" /\ \E reply \in FailingReplies : StoryTierFallsBack(reply)
  \/ fpc = "gen_wait" /\ \E reply \in FailingReplies : GenerationFails(reply)
  \/ fpc = "gen_wait" /\ \E reply \in StoryReplies(freq.age) : GenerationReturns(reply)
  \/ fpc = "ai_wait" /\ \E reply \in RubricReplies : ValidationCompletes(reply)
  \/ fpc = "ai_wait" /\ \E reply \in RubricReplies : ImprovementStarts(reply)
  \/ fpc = "ai_wait" /\ \E reply \in RubricReplies : GenerationCompletes(reply)
  \/ fpc = "improve_wait" /\ \E reply \in RawReplies : ImprovementSettles(reply)
  \/ fpc = "idle" /\ \E request \in ContentRequests : StoryContentRejected(request)
  \/ fpc = "idle" /\ \E request \in StoriesRequests : GenerateStoriesRejected(request)
  \/ fpc = "idle" /\ \E request \in StoriesRequests : GenerateStories(request)
  \/ fpc \in {"opt_wait", "prev_wait"}
       /\ \E reply \in FailingReplies : OptionsTierFallsBack(reply)
  \/ fpc = "opt_wait" /\ \E reply \in OptionReplies : NextOption(reply)
  \/ fpc = "opt_wait" /\ \E reply \in OptionReplies : LastOption(reply)
  \/ fpc = "prev_wait" /\ \E reply \in PreviewReplies : PreviewsSettle(reply)

SpecFlow == Init /\ [][FlowNext]_vars

----------------------------------------------------------------------------
(* Calls of DatabaseService                                                *)
(*                                                                         *)
(* The arguments are well-formed stories: the root segment of saveStory is *)
(* the segment of the story saved, an appended segment hangs below a       *)
(* segment of its own story. Ids are supplied by the caller and may be in  *)
(* use already.                                                            *)

AllStoryIds == {"story-1", "story-2"}

ChoicePointIds == {"choice_1", "choice_2"}

MkSegment(id, storyId, parent, choice, choicePoints) ==
  [id |-> id, storyId |-> storyId, parentSegmentId |-> parent, choiceId |-> choice,
   choicePoints |-> choicePoints]

SegmentsOf(storyId) == { g \in story_segments : g.story_id = storyId }

(* the segments a caller may append below the segments parents *)
ChildSegments(storyId, parents, choicePointSets) ==
  { MkSegment(id, storyId, parent, choice, cps) :
      id \in {"seg-x", "seg-y"}, parent \in parents,
      choice \in {"A", "B"}, cps \in choicePointSets }

(* the lists of segments of a saveStorySegments call: one segment (with no *)
(* or one choice point), or a segment and a segment below it               *)
AppendLists(storyId) ==
  LET choicePoints ==
        { <<>> } \cup { <<[id |-> c, choices |-> ChoiceIds]>> : c \in ChoicePointIds }
      firsts == ChildSegments(storyId, Ids(SegmentsOf(storyId)), choicePoints)
  IN  { <<g>> : g \in firsts }
      \cup UNION { { <<g, h>> : h \in ChildSegments(storyId, {g.id}, {<<>>}) } :
                   g \in { f \in firsts : f.choicePoints = <<>> } }

MkOp(op, tx, storyId) == [op |-> op, ok |-> tx.ok, ran |-> tx.ran, storyId |-> storyId]

(* parseStoryOptionsResponse: the energy levels an option can carry; an    *)
(* ENERGY: line with another word leaves the default, 'medium'             *)
validEnergyLevels ==
  { "energetic", "peaceful", "mystical", "playful", "cozy", "adventurous",
    "gentle", "exciting", "high", "medium", "calming" }

(* saveStory of a story option with the energy level energyLevel *)
SaveStory(storyId, choicePoints, energyLevel) ==
  LET tx == saveStory(Db, [mockStoryOption(storyId, PlainProfile("Emma", MinAge))
                             EXCEPT !.energyLevel = energyLevel],
                      << MkSegment(RootSegmentId(storyId), storyId, Null, Null,
                                   choicePoints) >>)
  IN  /\ Commit(tx.db)
      /\ lastOp' = MkOp("saveStory", tx, storyId)
      /\ UNCHANGED <<orchVars, fpc, fop, freq, fstory, forig, fbasic, fai, fsafety,
                     ftrace, fresult, opts, delivery, visits>>

SaveStorySegments(segments) ==
  LET tx == saveStorySegments(Db, segments)
  IN  /\ Commit(tx.db)
      /\ lastOp' = MkOp("saveStorySegments", tx, segments[1].storyId)
      /\ UNCHANGED <<orchVars, fpc, fop, freq, fstory, forig, fbasic, fai, fsafety,
                     ftrace, fresult, opts, delivery, visits>>

DeleteStory(storyId) ==
  LET RowCount(db) ==
        Cardinality(db.stories) + Cardinality(db.story_segments)
        + Cardinality(db.choice_points) + Cardinality(db.choice_options)
  IN
  /\ Commit(deleteStory(Db, storyId))
  /\ lastOp' = [op |-> "deleteStory", ok |-> TRUE, storyId |-> storyId,
                ran |-> RowCount(Db) - RowCount(deleteStory(Db, storyId))]
  /\ UNCHANGED <<orchVars, fpc, fop, freq, fstory, forig, fbasic, fai, fsafety,
                 ftrace, fresult, opts, delivery, visits>>

(* the root segment of a saveStory call has no choice point or one, with   *)
(* different or equal choices; the story option has the energy level of    *)
(* mockStoryOption or, with a root segment without choice points, any of   *)
(* those of the parser                                                     *)
StoreNext ==
  \/ \E storyId \in AllStoryIds :
       \E cps \in { <<>> }
                  \cup { <<[id |-> c, choices |-> ChoiceIds]>> : c \in ChoicePointIds }
                  \cup { <<[id |-> c, choices |-> <<"A", "A">>]>> : c \in ChoicePointIds } :
         \E energyLevel \in IF cps = <<>> THEN validEnergyLevels ELSE {"medium"} :
           SaveStory(storyId, cps, energyLevel)
  \/ \E storyId \in AllStoryIds : \E segments \in AppendLists(storyId) :
       SaveStorySegments(segments)
  \/ \E storyId \in AllStoryIds : DeleteStory(storyId)

SpecStore == Init /\ [][StoreNext]_vars

----------------------------------------------------------------------------
(* getNextSegment: lazy expansion of a branch                              *)
(*                                                                         *)
(* The handlers of the routes /stories/:storyId/next and /continue are not *)
(* part of the sources; the steps below follow the specification: look up  *)
(* the child of (segmentId, choiceId) among the segments of the story,     *)
(* return it if there is one, otherwise generate the branch and persist it *)
(* with DatabaseService.saveStorySegments. Visitors follow the choices of  *)
(* the segment generateContent persisted, the only one with choice points. *)

(* the request arrives: the lookup finds the child (found: the segments of *)
(* the story reached from segmentId by choiceId), or generation starts     *)
GetNextSegment(v, storyId, segmentId, choiceId) ==
  LET found == { g \in SegmentsOf(storyId) :
                   g.parent_segment_id = segmentId /\ g.choice_id = choiceId }
      visit == [NoVisit EXCEPT !.storyId = storyId, !.segmentId = segmentId,
                               !.choiceId = choiceId,
                               !.seenBefore = \E t \in visits.returned :
                                                 t[1] = segmentId /\ t[2] = choiceId]
  IN  /\ visits.call[v].pc = "idle"
      /\ segmentId \in Ids(SegmentsOf(storyId))
      /\ IF found = {}
         THEN visits' = [visits EXCEPT !.call[v] = [visit EXCEPT !.pc = "generating"]]
         ELSE \E g \in found :
                visits' = [visits EXCEPT
                             !.call[v] = [visit EXCEPT !.pc = "returned", !.result = g.id],
                             !.returned = @ \cup {<<segmentId, choiceId, g.id>>}]
      /\ UNCHANGED <<orchVars, flowVars, delivery, lastOp>>

(* generation of the branch failed: the request fails *)
GenerationFailed(v) ==
  /\ visits.call[v].pc = "generating"
  /\ visits' = [visits EXCEPT !.call[v].pc = "failed"]
  /\ UNCHANGED <<orchVars, flowVars, delivery, lastOp>>

(* generation of the branch returned: the segment is persisted and         *)
(* returned; its id is one no other request yields                         *)
BranchGenerated(v) ==
  LET visit == visits.call[v]
      id == visit.segmentId \o "_" \o visit.choiceId \o "_" \o ToString(v)
      tx == saveStorySegments(Db, << MkSegment(id, visit.storyId, visit.segmentId,
                                               visit.choiceId, <<>>) >>)
      grown == Cardinality({ g \in tx.db.story_segments : g.story_id = visit.storyId })
               - Cardinality(SegmentsOf(visit.storyId))
  IN  /\ visit.pc = "generating"
      /\ Commit(tx.db)
      /\ lastOp' = MkOp("saveStorySegments", tx, visit.storyId)
      /\ visits' = IF tx.ok
                   THEN [visits EXCEPT
                           !.call[v] = [visit EXCEPT !.pc = "returned", !.result = id,
                                                     !.created = grown],
                           !.returned = @ \cup {<<visit.segmentId, visit.choiceId, id>>}]
                   ELSE [visits EXCEPT !.call[v].pc = "failed"]
      /\ UNCHANGED <<orchVars, fpc, fop, freq, fstory, forig, fbasic, fai, fsafety,
                     ftrace, fresult, opts, delivery>>

(* the response of the request is sent *)
VisitResponds(v) ==
  /\ visits.call[v].pc \in {"returned", "failed"}
  /\ visits' = [visits EXCEPT !.call[v] = NoVisit]
  /\ UNCHANGED <<orchVars, flowVars, delivery, lastOp>>

(* generateContent persists a story with one choice point *)
StoryPersisted(storyId) ==
  LET tx == saveCompleteStory(Db, storyId,
                              mockStoryOption(storyId, PlainProfile("Emma", MinAge)),
                              [content |-> EmptyText, choicePoints |-> 1])
  IN  /\ Commit(tx.db)
      /\ lastOp' = MkOp("saveStory", tx, storyId)
      /\ UNCHANGED <<orchVars, fpc, fop, freq, fstory, forig, fbasic, fai, fsafety,
                     ftrace, fresult, opts, delivery, visits>>

(* the story the visitors read *)
VisitedStoryIds == {"story-1"}

BranchNext ==
  \/ \E storyId \in VisitedStoryIds : StoryPersisted(storyId)
  \/ \E v \in Visitors : \E storyId \in VisitedStoryIds : \E choiceId \in {"A", "B"} :
       GetNextSegment(v, storyId, RootSegmentId(storyId), choiceId)
  \/ \E v \in Visitors : GenerationFailed(v)
  \/ \E v \in Visitors : BranchGenerated(v)
  \/ \E v \in Visitors : VisitResponds(v)

SpecBranch == Init /\ [][BranchNext]_vars

----------------------------------------------------------------------------
(* Delivery of texts *)

(* the text is handed to the caller *)
Delivered ==
  /\ delivery.passes > 0
  /\ delivery' = NoDelivery
  /\ UNCHANGED <<orchVars, flowVars, lastOp, visits>>

DeliveryNext ==
  \/ \E age \in {MinAge, MaxAge} : \E profile \in Profiles(age) : \E text \in TokenTexts :
       Resolve(text, profile)
  \/ ResolveAgain
  \/ Delivered

SpecDelivery == Init /\ [][DeliveryNext]_vars

----------------------------------------------------------------------------
(* Claims about the orchestrator, checked under SpecOrch *)

TierOrder == <<"PRIMARY", "SECONDARY", "TERTIARY">>

Finished(c) == calls[c].pc \in {"returned", "thrown"}

Attempted(c) == [i \in 1 .. Len(calls[c].log) |-> calls[c].log[i].model]

IsPrefix(s, t) == Len(s) <= Len(t) /\ \A i \in 1 .. Len(s) : s[i] = t[i]

AllAttemptsFailed(c) ==
  /\ Len(calls[c].log) > 0
  /\ \A i \in 1 .. Len(calls[c].log) : TierFails(calls[c].log[i].reply)

ServedBy(c) == calls[c].log[Len(calls[c].log)].model

(* C1: a call with fallback allowed attempts the tiers in rank order, each *)
(* at most once; a tier is attempted only after every tier before it       *)
(* failed; the call returns the text of the first tier that succeeds and   *)
(* attempts nothing after it.                                              *)
C1_OrderedFallback ==
  \A c \in Callers :
    LET call == calls[c] n == Len(calls[c].log) IN
    (call.pc # "idle" /\ call.fb) =>
      /\ IsPrefix(Attempted(c), TierOrder)
      /\ \A i \in 1 .. n - 1 : TierFails(call.log[i].reply)
      /\ call.pc = "awaiting" =>
           /\ n < Len(TierOrder)
           /\ call.model = TierOrder[n + 1]
           /\ \A i \in 1 .. n : TierFails(call.log[i].reply)
      /\ call.pc = "returned" =>
           /\ n > 0
           /\ ~TierFails(call.log[n].reply)
           /\ call.result.text = Trim(call.log[n].reply)
           /\ call.result.error = "none"
      /\ call.pc = "thrown" => n = Len(TierOrder) /\ AllAttemptsFailed(c)

C1_Witness ==
  \E c \in Callers :
    /\ calls[c].pc = "returned" /\ calls[c].fb
    /\ Attempted(c) = TierOrder
    /\ calls[c].log[3].reply.kind = "content"
    /\ calls[c].result.text = calls[c].log[3].reply.text

(* C2: a call with fallbackToPaid = false attempts the first tier only,    *)
(* whether that tier succeeds or fails.                                    *)
C2_NoFallbackOnlyPrimary ==
  \A c \in Callers :
    (calls[c].pc # "idle" /\ ~calls[c].fb) =>
      /\ calls[c].model = "PRIMARY"
      /\ Len(calls[c].log) <= 1
      /\ \A i \in 1 .. Len(calls[c].log) : calls[c].log[i].model = "PRIMARY"
      /\ Finished(c) => Len(calls[c].log) = 1

C2_Witness ==
  \E c \in Callers :
    /\ calls[c].pc = "thrown" /\ ~calls[c].fb
    /\ Attempted(c) = <<"PRIMARY">>

(* C3 as stated: when every attempted tier failed the call fails with the  *)
(* aggregated error, with fallback allowed and with fallback disabled.     *)
C3_AlwaysAggregated ==
  \A c \in Callers :
    (Finished(c) /\ AllAttemptsFailed(c)) =>
      calls[c].pc = "thrown" /\ calls[c].result.error = "AllUnavailable"

(* C3 amended: when every attempted tier failed the call returns no text   *)
(* and throws: the aggregated error when fallback is allowed, the first    *)
(* tier's own error when fallback is disabled.                             *)
C3_FailsWithoutText ==
  \A c \in Callers :
    (Finished(c) /\ AllAttemptsFailed(c)) =>
      /\ calls[c].pc = "thrown"
      /\ calls[c].result.text = EmptyText
      /\ calls[c].fb => calls[c].result.error = "AllUnavailable"
      /\ ~calls[c].fb => calls[c].result.error = TierError(calls[c].log[1].reply)

C3_Witness ==
  /\ \E c \in Callers :
       /\ calls[c].pc = "thrown" /\ calls[c].fb
       /\ Len(calls[c].log) = 3 /\ calls[c].result.error = "AllUnavailable"
  /\ \E c \in Callers :
       calls[c].pc = "thrown" /\ ~calls[c].fb /\ calls[c].result.error = "NoContent"

(* C4: after a call returned, with no other call in flight since it began, *)
(* getCurrentModel is the tier whose completion was returned.              *)
C4_RecordedTierServed ==
  \A c \in Callers :
    (calls[c].pc = "returned" /\ calls[c].solo) => getCurrentModel = ServedBy(c)

C4_Witness ==
  \E c \in Callers :
    /\ calls[c].pc = "returned" /\ calls[c].solo
    /\ ServedBy(c) = "TERTIARY"
    /\ getCurrentModel = "TERTIARY"

----------------------------------------------------------------------------
(* Claims about the safety validator and generateStoryContent, checked     *)
(* under SpecFlow                                                          *)

BlockList == dangerousWords \cup inappropriateWords

HasAny(list, text) == \E w \in list : Includes(text, w)

(* performBasicSafetyChecks has run on forig.content *)
BasicDone == fbasic # NoSafety

(* generateStoryContent has decided about the improvement *)
Decided == fop = "generate" /\ ftrace.checked

(* C5: check returns score = round(0.4 * deterministic + 0.6 * model), and *)
(* isSafe exactly when both passes passed and the score is at least 80.    *)
C5_CombinedScore ==
  ftrace.checked =>
    /\ fbasic.score \in 0 .. 100 /\ fai.score \in 0 .. 100
    /\ 10 * fsafety.score - 5 <= 4 * fbasic.score + 6 * fai.score
    /\ 4 * fbasic.score + 6 * fai.score < 10 * fsafety.score + 5
    /\ fsafety.isSafe <=> (fbasic.isSafe /\ fai.isSafe /\ fsafety.score >= 80)

C5_Witness ==
  /\ ftrace.checked
  /\ fbasic.score = 100 /\ fai.score = 81 /\ fsafety.score = 89
  /\ fsafety.isSafe

(* C6: needsImprovement holds exactly when score < 85 or an issue was      *)
(* reported, and generateStoryContent makes one remediation attempt        *)
(* whenever it holds, content reported safe with a score of 80..84         *)
(* included.                                                               *)
C6_RemediatesWheneverNeeded ==
  /\ ftrace.checked =>
       (needsImprovement(fsafety) <=> (fsafety.score < 85 \/ fsafety.issues # <<>>))
  /\ Decided =>
       ((fsafety.score < 85 \/ fsafety.issues # <<>>) => ftrace.remediations = 1)

(* C7 as stated: content with a block-list term scores below 80 on the     *)
(* deterministic pass and generateStoryContent remediates it.              *)
C7_BlockedBelow80 ==
  (BasicDone /\ HasAny(BlockList, forig.content)) =>
    /\ fbasic.score < 80
    /\ Decided => ftrace.remediations = 1

(* C7 amended: content with a block-list term fails the deterministic pass *)
(* with a score of at most 85, at most 80 when the term is on the          *)
(* dangerous-word list, whatever the model pass says; check reports it     *)
(* unsafe and generateStoryContent remediates it.                          *)
C7_BlockedFailsAndRemediates ==
  (BasicDone /\ HasAny(BlockList, forig.content)) =>
    /\ ~fbasic.isSafe
    /\ fbasic.score <= 85
    /\ HasAny(dangerousWords, forig.content) => fbasic.score <= 80
    /\ ftrace.checked => ~fsafety.isSafe
    /\ Decided => ftrace.remediations = 1

C7_Witness ==
  /\ Decided /\ fpc = "done"
  /\ forig.content.bag = [NoWords EXCEPT !["kill"] = 1]
  /\ fbasic.score = 80
  /\ fai.score = 100 /\ fai.isSafe
  /\ ftrace.remediations = 1

(* C8: adding a block-list word to a text, a new one or a repeat, never    *)
(* raises the score of the deterministic pass.                             *)
C8_Monotonic ==
  [][ ( /\ fpc = "done" /\ fop = "validate" /\ fresult = "ok"
        /\ fpc' = "ai_wait" /\ fop' = "validate"
        /\ freq'.age = freq.age
        /\ \E w \in BlockedVocab :
             forig'.content = AddBlockedWord(forig.content, w) )
      => fbasic'.score <= fbasic.score ]_vars

(* C9: the model pass calls the orchestrator with fallback disabled, and   *)
(* check never reports content safe when the model pass could not run.     *)
C9_NoSilentPass ==
  /\ fpc = "ai_wait" => (calls[FlowCaller].pc = "awaiting" /\ ~calls[FlowCaller].fb)
  /\ (ftrace.checked /\ ftrace.aiUnavailable) => ~fsafety.isSafe

RemediationGaveNothing ==
  fop = "generate" /\ fpc = "done" /\ ftrace.improved \in {"failed", "empty"}

(* C10 as stated: when the remediation fails or yields no output the       *)
(* original content is kept, the story is persisted and returned.          *)
C10_KeptAndReturned ==
  RemediationGaveNothing =>
    /\ fstory = forig
    /\ fresult = "ok"
    /\ ftrace.saved = "yes" /\ freq.storyId \in Ids(stories)

(* C10 amended: when the remediation fails or yields no output the         *)
(* original content is kept and generateStoryContent goes on to persist    *)
(* and return it; it fails only if the kept content is empty or the store  *)
(* rejects the write.                                                      *)
C10_KeptThenSaved ==
  RemediationGaveNothing =>
    /\ fstory = forig
    /\ ftrace.remediations = 1
    /\ ftrace.saved = "no" <=> ContentIsEmpty(forig)
    /\ fresult = "ok" <=> ftrace.saved = "yes"
    /\ fresult = "ok" => freq.storyId \in Ids(stories)
    /\ fresult # "ok" => fresult = "error"

C10_Witness ==
  /\ RemediationGaveNothing
  /\ ftrace.improved = "failed"
  /\ ~ContentIsEmpty(forig) /\ fstory = forig
  /\ fresult = "ok" /\ freq.storyId \in Ids(stories)

----------------------------------------------------------------------------
(* Claims about placeholder substitution (SpecDelivery) *)

(* C11: placeholder substitution is idempotent: resolving a text that was  *)
(* already resolved for the same valid profile changes nothing, also when  *)
(* field values of the profile contain a placeholder token and when best   *)
(* friend or current interest are missing.                                 *)
C11_Idempotent ==
  delivery.passes = 2 => delivery.text = delivery.source

----------------------------------------------------------------------------
(* Claims about what the generation flow stores (SpecFlow) *)

(* the child's name stands in the text where the name token would *)
HasLiteralName(text) == \E i \in 1 .. Len(text) : text[i] \in Names

(* the texts of the rows of table stories *)
StoredStoryTexts == UNION { {r.title, r.description, r.preview} : r \in stories }

(* C12: every text the generation flow writes to the store is in           *)
(* placeholder form: none of them contains the child's literal name in     *)
(* place of the name token.                                                *)
C12_StoredInPlaceholderForm ==
  \A text \in StoredStoryTexts : ~HasLiteralName(text)

----------------------------------------------------------------------------
(* Claims about DatabaseService (SpecStore) *)

(* C13: createStory and appendSegments are each atomic: when an insert of  *)
(* the call fails, the call leaves the four tables as they were before it, *)
(* with none of its rows added and every earlier row unchanged.            *)
C13_Atomic ==
  [][(lastOp'.op \in {"saveStory", "saveStorySegments"} /\ ~lastOp'.ok)
       => UNCHANGED storeVars]_vars

(* a saveStory call has thrown at its second choice option, after the      *)
(* inserts of its story, segment, choice point and first option had run    *)
C13_Witness ==
  /\ lastOp.op = "saveStory" /\ ~lastOp.ok /\ lastOp.ran = 4
  /\ lastOp.storyId \notin Ids(stories)
  /\ stories # {}

(* the rows that do not belong to story storyId *)
RowsOfOthers(storyId) ==
  LET segs == { g \in story_segments : g.story_id # storyId }
      cps == { c \in choice_points : c.segment_id \in Ids(segs) }
  IN  MkDb({ r \in stories : r.id # storyId }, segs, cps,
           { o \in choice_options : o.choice_point_id \in Ids(cps) })

(* every row hangs below a row that exists *)
NoOrphans ==
  /\ \A g \in story_segments :
       /\ g.story_id \in Ids(stories)
       /\ g.parent_segment_id # Null => g.parent_segment_id \in Ids(story_segments)
  /\ \A c \in choice_points : c.segment_id \in Ids(story_segments)
  /\ \A o \in choice_options : o.choice_point_id \in Ids(choice_points)

(* C16: after deleteStory(storyId) the store holds no story, segment,      *)
(* choice point or choice option of that story and no orphaned row, and    *)
(* the rows of every other story are as they were.                         *)
C16_DeleteCascades ==
  [][lastOp'.op = "deleteStory"
       => (Db' = RowsOfOthers(lastOp'.storyId) /\ NoOrphans')]_vars

(* a story with segments, choice points and options was deleted while the  *)
(* other story stays                                                       *)
C16_Witness ==
  /\ lastOp.op = "deleteStory" /\ lastOp.ran >= 7
  /\ lastOp.storyId \notin Ids(stories)
  /\ stories # {} /\ story_segments # {}

(* C14: a getNextSegment request that returns a segment for a (segmentId,  *)
(* choiceId) pair no segment was returned for before has created exactly   *)
(* one segment of the story, the one it returns; every later request with  *)
(* the same pair creates no segment and returns the same segment id.       *)
C14_OneSegmentPerBranch ==
  /\ \A v \in Visitors :
       LET visit == visits.call[v]
       IN  visit.pc = "returned"
             => IF visit.seenBefore THEN visit.created = 0
                ELSE visit.created = 1 /\ visit.result \in Ids(SegmentsOf(visit.storyId))
  /\ \A t, u \in visits.returned : (t[1] = u[1] /\ t[2] = u[2]) => t[3] = u[3]

(* C15: for any story, no two segments share the same (parentSegmentId,    *)
(* choiceId) pair.                                                         *)
C15_BranchingInvariant ==
  \A g, h \in story_segments :
    (g.story_id = h.story_id /\ g.parent_segment_id = h.parent_segment_id
       /\ g.choice_id = h.choice_id) => g.id = h.id

(* the options of the response of a generateStories request that returned *)
ReturnedOptions ==
  IF fop = "options" /\ fpc = "done" /\ fresult = "ok" THEN Range(opts.stories) ELSE {}

(* C17: a generateOptions call that returns returns between 1 and count    *)
(* options, each with a title of at least 5 and a description of at least  *)
(* 20 characters.                                                          *)
C17_OptionsWellFormed ==
  (fop = "options" /\ fpc = "done" /\ fresult = "ok")
    => /\ Len(opts.stories) >= 1 /\ Len(opts.stories) <= opts.request.count
       /\ \A option \in ReturnedOptions :
            /\ Chars(option.title) >= MinTitleLength
            /\ option.description.len >= MinDescriptionLength

(* C18: when every tier fails on every completion call of a generateOptions *)
(* call (no completion returns), the call raises an error and returns no    *)
(* option.                                                                  *)
C18_AllTiersFailRaises ==
  (fop = "options" /\ fpc = "done" /\ fresult # "invalid" /\ opts.returned = 0)
    => (fresult = "error" /\ opts.stories = <<>>)

(* three single-story completions have thrown after the last tier *)
C18_Witness ==
  /\ fop = "options" /\ fpc = "done" /\ fresult = "error"
  /\ opts.request.count = 3 /\ opts.i = 3 /\ opts.returned = 0
  /\ calls[FlowCaller].pc = "thrown" /\ Len(calls[FlowCaller].log) = 3

(* C19: generateOptions never returns an option whose title or description *)
(* is a built-in default or a locally made text instead of text parsed     *)
(* from the model output.                                                  *)
C19_OnlyModelText ==
  \A option \in ReturnedOptions :
    option.titleOrigin = "model" /\ option.description.origin = "model"

(* the request fails validation: count outside 1..5, age outside 3..12,    *)
(* malformed profile, missing story id                                     *)
FailsValidation(op, request) ==
  \/ op = "options" /\ request.count \notin MinCount .. MaxCount
  \/ op = "generate" /\ request.storyId = ""
  \/ request.profile.age \notin MinAge .. MaxAge
  \/ request.profile.name \notin Names
  \/ request.profile.favoriteAnimal = ""

(* C20: a generateOptions or generateContent request that fails validation *)
(* is rejected with a validation error, with no completion call made and   *)
(* nothing written to the store.                                           *)
C20_RejectedBeforeAnyCall ==
  [][(fop' \in {"options", "generate"} /\ FailsValidation(fop', opts'.request))
       => /\ fresult' = "invalid"
          /\ calls'[FlowCaller] = NoCall
          /\ UNCHANGED <<storeVars, currentModel>>]_vars

(* a request for six options was rejected while the store holds a story *)
C20_Witness ==
  /\ fop = "options" /\ fresult = "invalid"
  /\ opts.request.count = MaxCount + 1
  /\ calls[FlowCaller] = NoCall
  /\ stories # {}

(* the text a completion returned is a well-formed option: it has the      *)
(* TITLE: and DESCRIPTION: lines, a title of at least 5 characters, a      *)
(* description of more than 50 characters, and nothing the validation of   *)
(* descriptions objects to                                                 *)
WellFormedOption(text) ==
  /\ text # EmptyText
  /\ Chars(text.title) >= MinTitleLength
  /\ text.description.len > MinParsedDescription
  /\ validateStoryDescription(text.description).isSafe

AllOptionsWellFormed ==
  /\ fop = "options" /\ fpc = "done" /\ opts.request.count = 3
  /\ Len(opts.texts) = 3
  /\ \A k \in 1 .. 3 : WellFormedOption(opts.texts[k])

C22_ReadsBackWhatWasWritten ==
  [][/\ \A storyId \in AllStoryIds : \A segments \in AppendLists(storyId) :
          (SaveStorySegments(segments) /\ lastOp'.ok)
            => \A k \in DOMAIN segments :
                 segments[k] \in getStorySegments(Db', storyId)
     /\ \A storyId \in AllStoryIds :
          (lastOp'.op = "saveStory" /\ lastOp'.storyId = storyId /\ lastOp'.ok)
            => \E segment \in getStorySegments(Db', storyId) :
                 /\ segment.id = RootSegmentId(storyId)
                 /\ \A j \in DOMAIN segment.choicePoints :
                      segment.choicePoints[j].choices # <<>>]_vars

(* C23: with two calls running concurrently on the shared client, the tier *)
(* recorded when a call returns is the tier that served that call.         *)
C23_NoRaceOnRecordedTier ==
  [][\A c \in Callers :
       (calls[c].pc = "awaiting" /\ calls'[c].pc = "returned")
         => getCurrentModel' = ServedBy(c)']_vars

(* C24: one generateContent call makes at most one remediation completion  *)
(* call, whatever the safety result and whatever the remediation returns.  *)
C24_SingleRemediation ==
  fop = "generate" => ftrace.remediations <= 1

(* a generateContent call ended after a remediation that gave nothing *)
C24_Witness ==
  /\ fop = "generate" /\ fpc = "done"
  /\ ftrace.remediations = 1 /\ ftrace.improved \in {"failed", "empty"}

(* C25: no prompt built from the profile during generateOptions and        *)
(* generateContent contains the child's literal name; the name appears as  *)
(* the name placeholder token only.                                        *)
C25_PromptsWithoutName ==
  (fop \in {"options", "generate"} /\ opts.prompt # <<>>)
    => ~HasLiteralName(opts.prompt)

(* C26: every extracted choice option has an identifier of its own: no two *)
(* choice options extracted for different choice points (of different      *)
(* segments or different stories) share an identifier. option_id is the id *)
(* the extraction gave the option.                                         *)
C26_OptionIdsUnique ==
  \A o, p \in choice_options :
    o.choice_point_id # p.choice_point_id => o.option_id # p.option_id

(* C27: checkContentSafety never raises, whatever the backend does: once   *)
(* its model pass has settled, by a reply or by a failure of the tier, it  *)
(* has returned a result; the result has 0 <= score <= 100, and a result   *)
(* with isSafe = true has an empty issue list and score >= 80.             *)
C27_AlwaysAResult ==
  /\ fpc \in {"ai_wait", "improve_wait"} => fop \in {"validate", "generate"}
  /\ (fop \in {"validate", "generate"} /\ fpc = "improve_wait") => ftrace.checked
  /\ (fop = "validate" /\ fpc = "done" /\ fresult = "ok") => ftrace.checked
  /\ ftrace.checked =>
       /\ fsafety.score \in 0 .. 100
       /\ fsafety.isSafe => (fsafety.issues = <<>> /\ fsafety.score >= SafeThreshold)

C27_Witness ==
  /\ ftrace.checked /\ ftrace.aiUnavailable
  /\ fsafety.isSafe /\ fsafety.issues = <<>> /\ fsafety.score = 82

(* C28: a successful remediation in generateStoryContent replaces only the *)
(* content: the choice points are those extracted from the original model  *)
(* output, the story option (id, title, description, preview) is the one   *)
(* of the request, and what is persisted is the story option with the      *)
(* original choice points, each with its options A and B.                  *)
C28_RemediationKeepsChoicePoints ==
  [][(fpc = "improve_wait" /\ fpc' = "done" /\ ftrace'.improved = "replaced")
       => LET storyId == freq.storyId
              storyOption == mockStoryOption(storyId, RequestProfile)
              persisted == { c \in choice_points' : c.segment_id = RootSegmentId(storyId) }
          IN  /\ fstory'.choicePoints = fstory.choicePoints
              /\ fstory'.choicePoints = forig.choicePoints
              /\ forig' = forig /\ freq' = freq
              /\ fstory'.content = calls'[FlowCaller].result.text
              /\ ftrace'.saved = "yes" =>
                   /\ \E s \in stories' : s.id = storyId /\ s.title = storyOption.title
                   /\ { c.id : c \in persisted }
                        = { "choice_" \o storyId \o "_" \o ToString(j) :
                              j \in 1 .. forig.choicePoints }
                   /\ \A c \in persisted :
                        { o.option_id : o \in { p \in choice_options' : p.choice_point_id = c.id } }
                          = {"A", "B"}]_vars

C28_Witness ==
  /\ fop = "generate" /\ fpc = "done" /\ ftrace.improved = "replaced" /\ ftrace.saved = "yes"
  /\ forig.choicePoints = 1 /\ fstory.choicePoints = 1
  /\ fstory.content # forig.content /\ fstory.content.cps # 1
  /\ \E c \in choice_points : c.segment_id = RootSegmentId(freq.storyId)

C30_EveryEnergyLevelPersisted ==
  [][\A storyId \in AllStoryIds : \A energyLevel \in validEnergyLevels :
       (storyId \notin Ids(stories) /\ SaveStory(storyId, <<>>, energyLevel))
         => (lastOp'.ok /\ storyId \in Ids(stories'))]_vars

====
